---- MODULE Spec2Model ----
(***************************************************************************)
(* TikTokSales: the live-commerce intent-correlation pipeline.             *)
(*                                                                         *)
(*   services/chat-product/app.py  POST /comments  (_queue_comment_internal)*)
(*                                 POST /process_queue (process_user_queue) *)
(*   services/worker/worker.py     worker_loop, process_comment            *)
(*                                                                         *)
(* Every await / outbound call of a handler is one step of the model, so   *)
(* that concurrent requests and the worker interleave exactly where the    *)
(* code can be suspended.  The Redis store, the Supabase tables and the    *)
(* collaborators' replies are the shared state and the inputs.             *)
(***************************************************************************)
EXTENDS FiniteSets, Integers, Sequences, TLC

(* ------------------------------ bounds -------------------------------- *)
\* number of POST /comments requests of a run
NSub == 2
\* number of POST /process_queue requests of a run
NPq == 2
\* timestamps are 1..MaxTs (ISO-8601 instants, ordered as the integers)
MaxTs == 4
\* a producer other than POST /comments pushes only while a list is shorter
MaxForeign == 1
\* number of worker processes
NWk == 2
\* slots of the key space one SCAN page covers
PageSlots == 2
\* calls of get_active_queue_keys followed, and keys one call may collect
MaxScans == 2
MaxCollected == 4
\* collector cycles followed
MaxCycles == 2
\* collector processes (one per worker process)
NCol == 2

SubIds == 1..NSub
PqIds == 1..NPq
WkIds == 1..NWk
ColIds == 1..NCol
Ts == 1..MaxTs

(* --------------------------- program constants ------------------------ *)
\* expire(list_key, 7 * 24 * 3600)
RetentionSeconds == 604800

\* identities: strings as the code receives them (Field(min_length=1)); one
\* of each holds the ':' the key format uses as its separator
Streamers == {"s1", "s1:r"}
Clients == {"r1", "r:r1"}

\* "no value": None of an Optional timestamp, of a frame, of a product id
NoTs == 0
NoId == ""

VARIABLES
    redis_client,      \* TRUE: connected client; FALSE: None (startup failed)
    db_initialized,    \* initialize_supabase() result
    now,               \* datetime.utcnow()
    comments_stream,   \* the Redis stream "comments_stream" (global log)
    queues,            \* the Redis lists: key -> sequence of entries
    ttl,               \* remaining time-to-live of each key (0: none / no key)
    chat_messages,     \* Supabase table chat_messages
    streamer_frames,   \* Supabase table streamer_frames
    products,          \* Supabase table products
    sub,               \* the POST /comments requests
    pq,                \* the POST /process_queue requests
    wk,                \* the worker process
    scan,              \* calls of get_active_queue_keys, page by page
    col,               \* the frame collector task
    chat,              \* the POST /chat request
    minio              \* the objects of the frame bucket

vars == <<redis_client, db_initialized, now, comments_stream, queues, ttl,
          chat_messages, streamer_frames, products, sub, pq, wk, scan, col, chat,
          minio>>

\* what the request handlers and the worker's loop read and never write
store == <<redis_client, db_initialized, now, streamer_frames, products, scan, col, chat,
           minio>>

(* ------------------------------ the keys ------------------------------ *)
\* list_key = f"chat:queue:{streamer}:{client}"
list_key(streamer, client) == "chat:queue:" \o streamer \o ":" \o client

Keys == {list_key(s, c) : s \in Streamers, c \in Clients}

(* ----------------------------- comments ------------------------------- *)
\* IncomingComment.ensure_timestamp: a missing (falsy) timestamp becomes utcnow
ensure_timestamp(v, clock) == IF v = NoTs THEN clock ELSE v

\* the dict built by _queue_comment_internal; message texts are distinct per
\* request and stand for themselves
Comment(streamer, client, timestamp, message) ==
    [streamer |-> streamer, client |-> client, timestamp |-> timestamp,
     message |-> message]

\* json.dumps(comment): a list entry that json.loads can read back
json_dumps(comment) == [json |-> TRUE, obj |-> comment]

(* ------------------------- POST /comments ----------------------------- *)
SubIdle == [pc |-> "idle", streamer |-> NoId, client |-> NoId, timestamp |-> NoTs,
            message |-> 0, status |-> 0, ok |-> FALSE, queued_to |-> NoId]

\* (mutant) the handler swallows the store's exception and goes on to the
\* ok=True return
redis_queuing_ignored(st) == [st EXCEPT !.pc = "db"]

\* except Exception around XADD, RPUSH and EXPIRE: HTTPException 500
redis_queuing_failed(st) == [st EXCEPT !.pc = "done", !.status = 500]

\* (mutant) XADD ... MAXLEN 1: the log keeps its newest entry only
redis_xadd_maxlen(stream, entry) == <<entry>>

\* XADD comments_stream * ...: the entry is appended, nothing is trimmed
redis_xadd(stream, entry) == Append(stream, entry)

\* the request arrives, the payload is validated (ensure_timestamp), the client
\* is checked and XADD is issued
queue_comment_internal_xadd(i, streamer, client, timestamp, raises) ==
    /\ sub[i].pc = "idle"
    /\ LET ts == ensure_timestamp(timestamp, now)
           c == Comment(streamer, client, ts, i)
           req == [SubIdle EXCEPT !.streamer = streamer, !.client = client,
                                   !.timestamp = ts, !.message = i]
       IN IF ~redis_client
            THEN /\ sub' = [sub EXCEPT ![i] = [req EXCEPT !.pc = "done", !.status = 503]]
                 /\ UNCHANGED comments_stream
            ELSE IF raises
            THEN /\ sub' = [sub EXCEPT ![i] = redis_queuing_failed(req)]
                 /\ UNCHANGED comments_stream
            ELSE /\ sub' = [sub EXCEPT ![i] = [req EXCEPT !.pc = "rpush"]]
                 /\ comments_stream' = redis_xadd(comments_stream, c)
    /\ UNCHANGED <<store, queues, ttl, chat_messages, pq, wk>>

\* (mutant) LPUSH instead of RPUSH: the entry goes to the head
RpushHead(list, entry) == <<entry>> \o list

RpushTail(list, entry) == Append(list, entry)

\* RPUSH list_key json.dumps(comment)
queue_comment_internal_rpush(i, raises) ==
    /\ sub[i].pc = "rpush"
    /\ LET r == sub[i]
           k == list_key(r.streamer, r.client)
           c == Comment(r.streamer, r.client, r.timestamp, r.message)
       IN IF raises
            THEN /\ sub' = [sub EXCEPT ![i] = redis_queuing_failed(@)]
                 /\ UNCHANGED queues
            ELSE /\ sub' = [sub EXCEPT ![i].pc = "expire"]
                 /\ queues' = [queues EXCEPT ![k] = RpushTail(@, json_dumps(c))]
    /\ UNCHANGED <<store, comments_stream, ttl, chat_messages, pq, wk>>

\* (mutant) EXPIRE NX: the TTL is set only on a key that has none
redis_expire_nx(list, old) == IF list # <<>> /\ old = 0 THEN RetentionSeconds ELSE old

\* EXPIRE key 7*24*3600: the key's TTL afterwards (0: no TTL, or no key)
redis_expire(list, old) == IF list # <<>> THEN RetentionSeconds ELSE old

\* time passes on a key with a TTL: its remaining time-to-live drops below the
\* full window (one second is enough to tell a refreshed TTL from an old one)
ttl_elapse(k) ==
    /\ ttl[k] = RetentionSeconds
    /\ ttl' = [ttl EXCEPT ![k] = RetentionSeconds - 1]
    /\ UNCHANGED <<store, comments_stream, queues, chat_messages, sub, pq, wk>>

\* EXPIRE list_key 7 days; a key that no longer exists gets no TTL
queue_comment_internal_expire(i, raises) ==
    /\ sub[i].pc = "expire"
    /\ LET k == list_key(sub[i].streamer, sub[i].client)
       IN IF raises
            THEN /\ sub' = [sub EXCEPT ![i] = redis_queuing_failed(@)]
                 /\ UNCHANGED ttl
            ELSE /\ sub' = [sub EXCEPT ![i].pc = "db"]
                 /\ ttl' = [ttl EXCEPT ![k] = redis_expire(queues[k], @)]
    /\ UNCHANGED <<store, comments_stream, queues, chat_messages, pq, wk>>

\* (mutant) a failed insert surfaces to the caller
return_after_insert_strict(st, stored) ==
    IF stored
      THEN [st EXCEPT !.pc = "done", !.status = 200, !.ok = TRUE,
                      !.queued_to = list_key(st.streamer, st.client)]
      ELSE [st EXCEPT !.pc = "done", !.status = 500]

\* the return after the insert: its except branch only logs, ok=True follows
return_after_insert(st, stored) ==
    [st EXCEPT !.pc = "done", !.status = 200, !.ok = TRUE,
               !.queued_to = list_key(st.streamer, st.client)]

\* best-effort insert into chat_messages, then the return of ok=True
queue_comment_internal_db(i, raises) ==
    /\ sub[i].pc = "db"
    /\ LET r == sub[i]
           c == Comment(r.streamer, r.client, r.timestamp, r.message)
           stored == db_initialized /\ ~raises
       IN /\ chat_messages' = IF stored THEN Append(chat_messages, c) ELSE chat_messages
          /\ sub' = [sub EXCEPT ![i] = return_after_insert(r, stored)]
    /\ UNCHANGED <<store, comments_stream, queues, ttl, pq, wk>>

\* A producer that writes the list directly (as the pipeline tests do with
\* redis.rpush): its entry may lack a timestamp or be no JSON at all
ForeignEntries == { [json |-> TRUE, obj |-> Comment("s1", "r1", NoTs, 0)],
                    [json |-> FALSE, obj |-> Comment(NoId, NoId, NoTs, 0)] }

foreign_rpush(k, entry) ==
    /\ redis_client
    /\ Len(queues[k]) < MaxForeign
    /\ queues' = [queues EXCEPT ![k] = Append(@, entry)]
    /\ UNCHANGED <<store, comments_stream, ttl, chat_messages, sub, pq, wk>>

(* ----------------------- collaborators' replies ----------------------- *)
\* A reply of the intent webhook (n8n): the call raises (timeout, connection
\* error), or an HTTP status comes back with a body.  shape: "list" a non-empty
\* JSON list whose first item is an object, "dict" an object, "emptylist" [],
\* "other" any other JSON value or a list of non-objects, "notjson" a body
\* .json() cannot read.  intent: "<absent>" no such field, "<null>" JSON null,
\* else the string.  cantidad: absent, an integer, a numeric string, a string
\* int() rejects, or null.
Cant(t, v) == [t |-> t, v |-> v]
NoCant == Cant("absent", 0)

WebhookReply(kind, status, shape, intent, cantidad) ==
    [kind |-> kind, status |-> status, shape |-> shape, intent |-> intent,
     cantidad |-> cantidad]

WebhookRaises == WebhookReply("raise", 0, "none", "<absent>", NoCant)
NoReply == WebhookReply("none", 0, "none", "<absent>", NoCant)

\* str.lower() on the labels in use
Lower(s) == IF s = "YES" THEN "yes" ELSE IF s = "NO" THEN "no" ELSE s

\* int(first_item.get("cantidad", 0)): the value, or "raises"
IntRaises(c) == c.t \in {"badstr", "null"}
IntOf(c) == IF c.t = "absent" THEN 0 ELSE c.v

\* process_user_queue, step 2: intent and cantidad after the try/except around
\* the webhook call, from their defaults "no" and 0.  An exception leaves every
\* assignment made before it in place.
webhook_intent(reply) ==
    IF reply.kind = "raise" \/ reply.status # 200 THEN "no"
    ELSE IF reply.shape \notin {"list", "dict"} THEN "no"
    ELSE IF reply.intent = "<null>" THEN "no"
    ELSE IF reply.intent = "<absent>" THEN "no"
    ELSE Lower(reply.intent)

webhook_cantidad(reply) ==
    IF reply.kind = "raise" \/ reply.status # 200 THEN 0
    ELSE IF reply.shape \notin {"list", "dict"} THEN 0
    ELSE IF reply.intent = "<null>" THEN 0
    ELSE IF IntRaises(reply.cantidad) THEN 0
    ELSE IntOf(reply.cantidad)

\* A reply of the visual matcher: raises, or a status with productId
\* (NoId: null or missing)
VisionReply(kind, status, productId) ==
    [kind |-> kind, status |-> status, productId |-> productId]
NoVision == VisionReply("none", 0, NoId)

(* ------------------------- frames and catalog ------------------------- *)
\* the clock counts half seconds
TicksPerSecond == 2

\* timestamp.strftime("%Y%m%d_%H%M%S"): the timestamp cut to whole seconds
strftime_seconds(ts) == ts \div TicksPerSecond

\* object_name = f"frames/{streamer}/{ts}.jpg"
object_name(streamer, ts) == <<"frames", streamer, strftime_seconds(ts)>>

\* a row of streamer_frames, as save_frame_record_to_supabase writes it
Frame(streamer, ts) ==
    [streamer |-> streamer, frame_timestamp |-> ts, minio_url |-> object_name(streamer, ts)]
NoFrame == [streamer |-> NoId, frame_timestamp |-> NoTs, minio_url |-> <<>>]

\* .eq("streamer", streamer_id)
frames_eq_streamer(table, streamer) == {f \in table : f.streamer = streamer}

\* (mutant) the at-or-before query ordered ascending: the earliest such frame
frames_lte_asc(rows, t) ==
    LET s == {f \in rows : f.frame_timestamp <= t}
    IN IF s = {} THEN [streamer |-> NoId, frame_timestamp |-> NoTs, minio_url |-> <<>>]
       ELSE CHOOSE f \in s : \A g \in s : g.frame_timestamp >= f.frame_timestamp

\* .lte("frame_timestamp", t).order(desc=True).limit(1)
frames_lte_desc(rows, t) ==
    LET s == {f \in rows : f.frame_timestamp <= t}
    IN IF s = {} THEN NoFrame
       ELSE CHOOSE f \in s : \A g \in s : g.frame_timestamp <= f.frame_timestamp

\* (mutant) the fallback query ordered descending: the latest later frame
frames_gte_desc(rows, t) ==
    LET s == {f \in rows : f.frame_timestamp >= t}
    IN IF s = {} THEN [streamer |-> NoId, frame_timestamp |-> NoTs, minio_url |-> <<>>]
       ELSE CHOOSE f \in s : \A g \in s : g.frame_timestamp <= f.frame_timestamp

\* .gte("frame_timestamp", t).order(desc=False).limit(1)
frames_gte_asc(rows, t) ==
    LET s == {f \in rows : f.frame_timestamp >= t}
    IN IF s = {} THEN NoFrame
       ELSE CHOOSE f \in s : \A g \in s : g.frame_timestamp >= f.frame_timestamp

\* process_user_queue, step 3: the row whose minio_url becomes frame_url
select_frame(table, streamer, first_timestamp) ==
    LET rows == frames_eq_streamer(table, streamer)
        before == frames_lte_desc(rows, first_timestamp)
    IN IF before # NoFrame THEN before ELSE frames_gte_asc(rows, first_timestamp)

\* a row of products
Product(id, price) == [id |-> id, price |-> price]
NoProduct == [id |-> NoId, price |-> 0, cantidad |-> 0, total |-> 0]

\* (mutant) the lookup without its filter on the item id
products_all(table, id) == table

\* .eq("id", product_id).limit(1)
products_eq_id(table, id) == {p \in table : p.id = id}

\* (mutant) the total forgets the quantity
matched_product_unit(p, cantidad) ==
    [id |-> p.id, price |-> p.price, cantidad |-> cantidad, total |-> p.price]

\* the matched_product dict: total = float(price) * cantidad
matched_product_of(p, cantidad) ==
    [id |-> p.id, price |-> p.price, cantidad |-> cantidad, total |-> p.price * cantidad]

(* ------------------------ POST /process_queue ------------------------- *)
TextEmpty == "No hay mensajes en la cola para procesar."
TextHelp == "En que puedo ayudarte?"
TextFound == "Encontre el producto! Deseas comprar?"
TextNotIdentified == "Detecte intencion de compra pero no pude identificar el producto."
TextProblem == "Hubo un problema al buscar el producto. Intenta de nuevo."

\* the messages list built from the raw entries: msg.get("message", "") of an
\* entry json.loads accepts, str(msg_raw) of one it rejects
message_of(entry) ==
    IF entry.json THEN [from |-> "message", text |-> entry.obj.message]
    ELSE [from |-> "raw", entry |-> entry]
messages_of(raw) == [n \in 1..Len(raw) |-> message_of(raw[n])]

\* combined_messages = " | ".join(messages)
join_messages(messages) == messages

PqIdle == [pc |-> "idle", streamer_id |-> NoId, user_id |-> NoId, messages_raw |-> <<>>,
           combined_messages |-> <<>>,
           first_timestamp |-> NoTs, webhook |-> NoReply, intent |-> "no", cantidad |-> 0,
           frame |-> NoFrame, vision |-> NoVision, product_id |-> NoId,
           matched_product |-> NoProduct, payment_ready |-> FALSE,
           response_text |-> "", status |-> 0, messages_processed |-> 0, failed |-> "none"]

\* (mutant) the loop without its "first_timestamp is None" guard: the last
\* entry that carries a timestamp wins
last_timestamp_of(raw) ==
    LET idx == {n \in 1..Len(raw) : raw[n].json /\ raw[n].obj.timestamp # NoTs}
    IN IF idx = {} THEN NoTs
       ELSE raw[CHOOSE n \in idx : \A m \in idx : m <= n].obj.timestamp

\* the loop over messages_raw: the timestamp of the first entry that parses and
\* carries one (NoTs when none does)
RECURSIVE first_timestamp_of(_)
first_timestamp_of(raw) ==
    IF raw = <<>> THEN NoTs
    ELSE IF Head(raw).json /\ Head(raw).obj.timestamp # NoTs THEN Head(raw).obj.timestamp
    ELSE first_timestamp_of(Tail(raw))

\* LRANGE list_key 0 -1
lrange_all(list) == list

\* step 1: read the whole list; an empty list is answered at once
process_user_queue_lrange(j, streamer_id, user_id, raises) ==
    /\ pq[j].pc = "idle"
    /\ LET k == list_key(streamer_id, user_id)
           req == [PqIdle EXCEPT !.streamer_id = streamer_id, !.user_id = user_id]
           raw == lrange_all(queues[k])
           ft == first_timestamp_of(raw)
       IN pq' = [pq EXCEPT ![j] =
            IF ~redis_client
              THEN [req EXCEPT !.pc = "done", !.status = 503, !.failed = "redis"]
            ELSE IF raises
              THEN [req EXCEPT !.pc = "done", !.status = 500, !.failed = "redis"]
            ELSE IF raw = <<>>
              THEN [req EXCEPT !.pc = "done", !.status = 200, !.response_text = TextEmpty]
            ELSE [req EXCEPT !.pc = "nlp", !.messages_raw = raw,
                             !.first_timestamp = IF ft = NoTs THEN now ELSE ft]]
    /\ UNCHANGED <<store, comments_stream, queues, ttl, chat_messages, sub, wk>>

\* step 2: the webhook call with the combined messages
process_user_queue_webhook(j, reply) ==
    /\ pq[j].pc = "nlp"
    /\ LET intent == webhook_intent(reply)
       IN pq' = [pq EXCEPT ![j].webhook = reply,
                           ![j].combined_messages =
                               join_messages(messages_of(pq[j].messages_raw)),
                           ![j].intent = intent,
                           ![j].cantidad = webhook_cantidad(reply),
                           ![j].response_text = TextHelp,
                           ![j].pc = IF intent = "yes" THEN "frames" ELSE "delete"]
    /\ UNCHANGED <<store, comments_stream, queues, ttl, chat_messages, sub, wk>>

\* step 3a: the frame lookup (both queries are synchronous calls of one step)
process_user_queue_frames(j, raises) ==
    /\ pq[j].pc = "frames"
    /\ LET r == pq[j]
           f == IF db_initialized
                  THEN select_frame(streamer_frames, r.streamer_id, r.first_timestamp)
                  ELSE NoFrame
       IN pq' = [pq EXCEPT ![j] =
            IF db_initialized /\ raises
              THEN [r EXCEPT !.pc = "delete", !.response_text = TextProblem, !.failed = "frames"]
            ELSE IF f = NoFrame
              THEN [r EXCEPT !.pc = "delete", !.response_text = TextNotIdentified]
            ELSE [r EXCEPT !.pc = "vision", !.frame = f]]
    /\ UNCHANGED <<store, comments_stream, queues, ttl, chat_messages, sub, wk>>

\* (mutant) the matcher's status is not read: any reply with an item id counts
vision_matched_any_status(reply) == reply.productId # NoId

\* vision_response.status_code == 200, and "if product_id"
vision_matched(reply) == reply.status = 200 /\ reply.productId # NoId

\* step 3b: POST /match_product with [frame_url]
process_user_queue_vision(j, reply) ==
    /\ pq[j].pc = "vision"
    /\ LET r == pq[j]
       IN pq' = [pq EXCEPT ![j] =
            IF reply.kind = "raise"
              THEN [r EXCEPT !.pc = "delete", !.vision = reply,
                             !.response_text = TextProblem, !.failed = "vision"]
            ELSE IF vision_matched(reply)
              THEN [r EXCEPT !.pc = "product", !.vision = reply, !.product_id = reply.productId]
            ELSE [r EXCEPT !.pc = "delete", !.vision = reply,
                           !.response_text = TextNotIdentified]]
    /\ UNCHANGED <<store, comments_stream, queues, ttl, chat_messages, sub, wk>>

\* step 3c: the catalog lookup and the payment summary
process_user_queue_product(j, raises) ==
    /\ pq[j].pc = "product"
    /\ LET r == pq[j]
           rows == products_eq_id(products, r.product_id)
       IN pq' = [pq EXCEPT ![j] =
            IF raises
              THEN [r EXCEPT !.pc = "delete", !.response_text = TextProblem, !.failed = "product"]
            ELSE IF rows = {}
              THEN [r EXCEPT !.pc = "delete", !.response_text = TextNotIdentified]
            ELSE [r EXCEPT !.pc = "delete",
                           !.matched_product = matched_product_of(CHOOSE p \in rows : TRUE, r.cantidad),
                           !.payment_ready = TRUE,
                           !.response_text = TextFound]]
    /\ UNCHANGED <<store, comments_stream, queues, ttl, chat_messages, sub, wk>>

\* (mutant) only the head of the list is removed
redis_delete_head(list) == IF list = <<>> THEN <<>> ELSE Tail(list)

\* DEL list_key: the list after the delete
redis_delete(list) == <<>>

\* step 4: delete the key and answer
process_user_queue_delete(j, raises) ==
    /\ pq[j].pc = "delete"
    /\ LET r == pq[j]
           k == list_key(r.streamer_id, r.user_id)
       IN IF raises
            THEN /\ pq' = [pq EXCEPT ![j].pc = "done", ![j].status = 500,
                                     ![j].failed = IF @ = "none" THEN "redis" ELSE @]
                 /\ UNCHANGED <<queues, ttl>>
            ELSE /\ pq' = [pq EXCEPT ![j].pc = "done", ![j].status = 200,
                                     ![j].messages_processed = Len(r.messages_raw)]
                 /\ queues' = [queues EXCEPT ![k] = redis_delete(@)]
                 /\ ttl' = [ttl EXCEPT ![k] = IF redis_delete(queues[k]) = <<>> THEN 0 ELSE @]
    /\ UNCHANGED <<store, comments_stream, chat_messages, sub, wk>>

(* ------------------------------ worker -------------------------------- *)
\* scores are in hundredths: 0.5 is 50, 0.7 is 70
BuyThreshold == 50
MatchThreshold == 70

\* A reply of the worker's classifier POST /predict_intent: raises, or a
\* status with a body; shape "dict" an object, "other" another JSON value,
\* "notjson" unreadable.  process_comment never reads the status.
NlpReply(kind, status, shape, intent, score) ==
    [kind |-> kind, status |-> status, shape |-> shape, intent |-> intent, score |-> score]
NoNlp == NlpReply("none", 0, "none", "none", 0)

\* nlp_result after the first try/except of process_comment
nlp_result_of(reply) ==
    IF reply.kind = "raise" \/ reply.shape = "notjson"
      THEN [shape |-> "dict", intent |-> "none", score |-> 0]
      ELSE [shape |-> reply.shape, intent |-> reply.intent, score |-> reply.score]

\* nlp_result.get("intent") == "buy" and nlp_result.get("score", 0) > 0.5
is_buy(nlp_result) == nlp_result.intent = "buy" /\ nlp_result.score > BuyThreshold

\* A reply of the worker's matcher POST /match_product
MatchReply(kind, productId, score) == [kind |-> kind, productId |-> productId, score |-> score]
NoMatch == MatchReply("none", NoId, 0)

\* match_result after the second try/except
match_result_of(reply) ==
    IF reply.kind = "raise" THEN MatchReply("json", NoId, 0) ELSE reply

\* (mutant) the match threshold compared with >=
is_match_at_threshold(match_result) ==
    match_result.productId # NoId /\ match_result.score >= MatchThreshold

\* match_result.get("productId") and match_result.get("score", 0) > 0.7
is_match(match_result) == match_result.productId # NoId /\ match_result.score > MatchThreshold

NoEntry == [json |-> FALSE, obj |-> Comment(NoId, NoId, NoTs, 0)]

WkInit == [pc |-> "discover", keys |-> {}, prev_keys |-> {}, scan_failed |-> FALSE,
           key |-> NoId, comment |-> NoEntry,
           nlp |-> NoNlp, nlp_result |-> [shape |-> "dict", intent |-> "none", score |-> 0],
           match_result |-> NoMatch,
           handled |-> <<>>, matcher_calls |-> <<>>, orders |-> <<>>, errors |-> 0]

\* (mutant) the loop's handler lets the exception end the loop
worker_loop_reraise(st) == [st EXCEPT !.pc = "stopped", !.errors = 1]

\* except Exception at the loop boundary: log, sleep 1 s, next iteration
worker_loop_except(st) == [st EXCEPT !.pc = "discover", !.errors = 1]

\* (mutant) the scan reports every key ever used, also those whose list is
\* empty
get_all_queue_keys(lists, raises) == IF raises THEN {} ELSE DOMAIN lists

\* (mutant) a failed scan reports every key known
get_known_queue_keys(lists, raises) ==
    IF raises THEN DOMAIN lists ELSE {k \in DOMAIN lists : lists[k] # <<>>}

\* get_active_queue_keys: SCAN match chat:queue:*; [] when the scan raises
get_active_queue_keys(lists, raises) ==
    IF raises THEN {} ELSE {k \in DOMAIN lists : lists[k] # <<>>}

\* DISCOVER: no keys: sleep 1 s and discover again.  prev_keys keeps the key
\* set of the WAIT before, scan_failed whether this scan raised (history)
worker_loop_discover(w, raises) ==
    /\ wk[w].pc = "discover"
    /\ LET keys == get_active_queue_keys(queues, raises)
       IN wk' = [wk EXCEPT ![w].keys = keys,
                           ![w].scan_failed = raises,
                           ![w].prev_keys = IF wk[w].keys # {} THEN wk[w].keys ELSE @,
                           ![w].pc = IF keys = {} THEN "discover" ELSE "wait"]
    /\ UNCHANGED <<store, comments_stream, queues, ttl, chat_messages, sub, pq>>

\* (mutant) the pop reads the head and leaves it in the list
lpop_keep(list) == list

\* (mutant) the pop takes the entry pushed last
lpop_last(list) == list[Len(list)]

\* LPOP of BLPOP: head and rest of the list
lpop_item(list) == Head(list)
lpop_rest(list) == Tail(list)

\* (mutant) every popped entry is handed to process_comment
json_loads_any(entry) == TRUE

\* comment = json.loads(raw_comment) succeeds
json_loads_ok(entry) == entry.json

\* WAIT ends with a message: BLPOP pops the head of one of the keys given
worker_loop_blpop(w, k) ==
    /\ wk[w].pc = "wait"
    /\ k \in wk[w].keys
    /\ queues[k] # <<>>
    /\ LET e == lpop_item(queues[k])
           rest == lpop_rest(queues[k])
       IN /\ queues' = [queues EXCEPT ![k] = rest]
          /\ ttl' = [ttl EXCEPT ![k] = IF rest = <<>> THEN 0 ELSE @]
          /\ wk' = [wk EXCEPT ![w] =
               IF json_loads_ok(e)
                 THEN [@ EXCEPT !.pc = "nlp", !.key = k, !.comment = e,
                                !.handled = Append(@, e.obj)]
                 ELSE [@ EXCEPT !.pc = "discover", !.key = k, !.comment = e]]
    /\ UNCHANGED <<store, comments_stream, chat_messages, sub, pq>>

\* WAIT ends by timeout (every key given stayed empty), or BLPOP raises
worker_loop_timeout(w, raises) ==
    /\ wk[w].pc = "wait"
    /\ raises \/ \A k \in wk[w].keys : queues[k] = <<>>
    /\ wk' = [wk EXCEPT ![w] = IF raises THEN worker_loop_except(@)
                                ELSE [@ EXCEPT !.pc = "discover"]]
    /\ UNCHANGED <<store, comments_stream, queues, ttl, chat_messages, sub, pq>>

\* process_comment, step 1: the classifier call.  A body that is no object
\* makes nlp_result.get raise outside the try: the loop's handler ends the cycle
process_comment_nlp(w, reply) ==
    /\ wk[w].pc = "nlp"
    /\ LET res == nlp_result_of(reply)
           st == [wk[w] EXCEPT !.nlp = reply, !.nlp_result = res]
       IN wk' = [wk EXCEPT ![w] =
            IF res.shape # "dict" THEN worker_loop_except(st)
            ELSE [st EXCEPT !.pc = IF is_buy(res) THEN "vision" ELSE "discover"]]
    /\ UNCHANGED <<store, comments_stream, queues, ttl, chat_messages, sub, pq>>

\* step 3: the matcher call, with frame_urls = []
process_comment_vision(w, reply) ==
    /\ wk[w].pc = "vision"
    /\ LET res == match_result_of(reply)
       IN wk' = [wk EXCEPT ![w].match_result = res,
                           ![w].matcher_calls = Append(@, [comment |-> wk[w].comment.obj, frame_urls |-> <<>>]),
                           ![w].pc = IF is_match(res) THEN "order" ELSE "discover"]
    /\ UNCHANGED <<store, comments_stream, queues, ttl, chat_messages, sub, pq>>

\* (mutant) a failed order request puts the comment back on its list
requeue_after_order(list, entry, failed) == IF failed THEN Append(list, entry) ELSE list

\* the comment's list after the order request: the except branch only logs
queue_after_order(list, entry, failed) == list

\* step 4: POST /order/create; a failure is logged
process_comment_order(w, raises) ==
    /\ wk[w].pc = "order"
    /\ LET c == wk[w].comment.obj
       IN wk' = [wk EXCEPT ![w].orders = Append(@, [product_id |-> wk[w].match_result.productId,
                                                      buyer |-> c.client, streamer |-> c.streamer,
                                                      message |-> c.message, failed |-> raises]),
                           ![w].pc = "discover"]
    /\ queues' = [queues EXCEPT ![wk[w].key] = queue_after_order(@, wk[w].comment, raises)]
    /\ UNCHANGED <<store, comments_stream, ttl, chat_messages, sub, pq>>

(* ------------------- get_active_queue_keys, by page ------------------- *)
\* the key space in the store's iteration order
KeySlots == <<list_key("s1", "r1"), list_key("s1", "r:r1"), list_key("s1:r", "r:r1")>>

\* a cursor as the client hands it to the caller: its value, as a string
\* ("0") or as an integer (0), which is the client library's choice
Cursor(form, v) == [form |-> form, v |-> v]

\* SCAN cursor MATCH chat:queue:* COUNT n: the cursor value that follows, and
\* the keys of the slots covered that exist (an empty list is no key)
scan_next(c) == IF c + PageSlots >= Len(KeySlots) THEN 0 ELSE c + PageSlots
scan_batch(lists, c) ==
    LET last == IF c + PageSlots >= Len(KeySlots) THEN Len(KeySlots) ELSE c + PageSlots
    IN SelectSeq(SubSeq(KeySlots, c + 1, last), LAMBDA k : lists[k] # <<>>)

\* (mutant) keys = batch: only the last page is kept
keys_assign(keys, batch) == batch

\* keys.extend(batch)
keys_extend(keys, batch) == keys \o batch

\* cursor == "0"
cursor_is_zero_str(cursor) == cursor = Cursor("str", 0)

ScanIdle == [pc |-> "idle", client |-> "str", cursor |-> Cursor("str", 0), keys |-> <<>>,
             n |-> 0, results |-> <<>>, raised |-> FALSE,
             has_seen |-> FALSE, seen |-> [k \in Keys |-> <<>>], dirty |-> FALSE]

\* a call begins: cursor = "0", keys = []
scan_begin(form) ==
    /\ scan.pc \in {"idle", "returned"}
    /\ scan.n < MaxScans
    /\ scan.n = 0 \/ form = scan.client
    /\ scan' = [scan EXCEPT !.pc = "loop", !.client = form,
                            !.cursor = Cursor("str", 0), !.keys = <<>>]
    /\ UNCHANGED <<redis_client, db_initialized, now, streamer_frames, products, col, chat, minio,
                   comments_stream, queues, ttl, chat_messages, sub, pq, wk>>

\* one iteration of the while loop: a SCAN page, extend, the exit test; an
\* exception returns [].  seen/dirty record (history) whether the store held
\* the same lists at every page read so far
scan_page(raises) ==
    /\ scan.pc = "loop"
    /\ Len(scan.keys) + Len(scan_batch(queues, scan.cursor.v)) <= MaxCollected
    /\ LET batch == scan_batch(queues, scan.cursor.v)
           cursor == Cursor(scan.client, scan_next(scan.cursor.v))
           keys == keys_extend(scan.keys, batch)
           st == [scan EXCEPT !.has_seen = TRUE,
                              !.seen = IF scan.has_seen THEN @ ELSE queues,
                              !.dirty = @ \/ (scan.has_seen /\ queues # scan.seen)]
       IN scan' =
            IF raises
              THEN [st EXCEPT !.pc = "returned", !.n = @ + 1, !.raised = TRUE,
                              !.results = Append(@, <<>>)]
            ELSE IF cursor_is_zero_str(cursor)
              THEN [st EXCEPT !.pc = "returned", !.n = @ + 1, !.cursor = cursor,
                              !.keys = keys, !.results = Append(@, keys)]
            ELSE [st EXCEPT !.cursor = cursor, !.keys = keys]
    /\ UNCHANGED <<redis_client, db_initialized, now, streamer_frames, products, col, chat, minio,
                   comments_stream, queues, ttl, chat_messages, sub, pq, wk>>

(* ------------------------- the frame collector ------------------------- *)
\* fetch_streamers_from_supabase(): the usernames of the live rows of the
\* directory in row order, or the names of the STREAMERS setting in order;
\* neither list is deduplicated.  [] on any error.
SourceLists == {<<>>, <<"s1">>, <<"s1", "s2">>, <<"s1", "s1">>}

\* the capture request and the upload that follows it in the same step
CaptureOutcomes == {"raise", "non200", "nonimage", "upload_raises", "image"}
\* the POST of the frame record: 200/201, another status, or an exception
SaveOutcomes == {"ok", "rejected", "raise"}

\* one collector process.  cycles is the number of cycles begun; attempts,
\* failed and records are the capture requests sent, the sources that failed
\* and the rows inserted
ColIdle == [pc |-> "fetch", configured |-> TRUE, streamers |-> <<>>, idx |-> 0, cycles |-> 0,
            timestamp |-> NoTs, attempts |-> {}, failed |-> {}, records |-> <<>>]

\* the clock after d ticks, within the horizon
clock_after(t, d) == IF t + d <= MaxTs THEN t + d ELSE MaxTs

\* minio_client.put_object(bucket, object_name, ...): the object of that name
\* is created or replaced; content names the capture the bytes come from
put_object(bucket, name, content) ==
    {o \in bucket : o.name # name} \cup {[name |-> name, content |-> content]}

\* (mutant) a failure for one source ends the cycle
abort_on_failure(idx, n, failed) ==
    IF ~failed /\ idx < n THEN [pc |-> "capture", idx |-> idx + 1]
    ELSE [pc |-> "sleep", idx |-> idx]

\* for streamer in streamers: the except clauses only log, the loop goes on
next_source(idx, n, failed) ==
    IF idx < n THEN [pc |-> "capture", idx |-> idx + 1]
    ELSE [pc |-> "sleep", idx |-> idx]

\* (mutant) the record is written also when the upload failed
save_always(outcome) == outcome \in {"image", "upload_raises"}

\* the record is written after upload_bytes_to_minio returned
save_after_upload(outcome) == outcome = "image"

\* streamers = await fetch_streamers_from_supabase(); nothing to do -> sleep
collector_fetch(p, configured, list) ==
    /\ col[p].pc = "fetch"
    /\ col[p].cycles < MaxCycles
    /\ col[p].cycles = 0 \/ configured = col[p].configured
    /\ col' = [col EXCEPT ![p] =
                 [@ EXCEPT !.configured = configured, !.streamers = list,
                           !.cycles = @ + 1,
                           !.pc = IF list = <<>> THEN "sleep" ELSE "capture",
                           !.idx = IF list = <<>> THEN 0 ELSE 1]]
    /\ UNCHANGED <<redis_client, db_initialized, now, streamer_frames, products, scan, chat,
                   minio, comments_stream, queues, ttl, chat_messages, sub, pq, wk>>

\* r = await client.get(capture_url); for an image: timestamp = utcnow(),
\* upload_bytes_to_minio, then on to the record
collector_capture(p, outcome) ==
    /\ col[p].pc = "capture"
    /\ LET at == <<col[p].cycles, col[p].idx>>
           streamer == col[p].streamers[col[p].idx]
           nxt == next_source(col[p].idx, Len(col[p].streamers), ~save_after_upload(outcome))
       IN /\ col' = [col EXCEPT ![p] =
                 IF save_after_upload(outcome)
                   THEN [@ EXCEPT !.pc = "save", !.timestamp = now, !.attempts = @ \cup {at}]
                   ELSE [@ EXCEPT !.pc = nxt.pc, !.idx = nxt.idx, !.attempts = @ \cup {at},
                                  !.failed = @ \cup {at}]]
          /\ minio' = IF outcome = "image"
                        THEN put_object(minio, object_name(streamer, now), <<p, at>>)
                        ELSE minio
    /\ now' = clock_after(now, 1)
    /\ UNCHANGED <<redis_client, db_initialized, streamer_frames, products, scan, chat,
                   comments_stream, queues, ttl, chat_messages, sub, pq, wk>>

\* await save_frame_record_to_supabase(...): no insert when Supabase is not
\* configured; a row on 200/201; None otherwise
collector_save(p, outcome) ==
    /\ col[p].pc = "save"
    /\ LET at == <<col[p].cycles, col[p].idx>>
           streamer == col[p].streamers[col[p].idx]
           stored == col[p].configured /\ outcome = "ok"
           failed == col[p].configured /\ outcome # "ok"
           nxt == next_source(col[p].idx, Len(col[p].streamers), failed)
       IN /\ col' = [col EXCEPT ![p] =
                 [@ EXCEPT !.pc = nxt.pc, !.idx = nxt.idx, !.timestamp = NoTs,
                           !.failed = IF failed THEN @ \cup {at} ELSE @,
                           !.records =
                               IF stored
                                 THEN Append(@, [cycle |-> col[p].cycles,
                                                 streamer |-> streamer,
                                                 frame_timestamp |-> col[p].timestamp,
                                                 minio_object |->
                                                     object_name(streamer, col[p].timestamp),
                                                 capture |-> <<p, at>>])
                                 ELSE @]]
          /\ streamer_frames' = IF stored
                                  THEN streamer_frames \cup {Frame(streamer, col[p].timestamp)}
                                  ELSE streamer_frames
    /\ UNCHANGED <<redis_client, db_initialized, now, products, scan, chat, minio,
                   comments_stream, queues, ttl, chat_messages, sub, pq, wk>>

\* await asyncio.sleep(poll_interval), at least a second, then the next cycle
collector_sleep(p) ==
    /\ col[p].pc = "sleep"
    /\ col' = [col EXCEPT ![p].pc = "fetch"]
    /\ now' = clock_after(now, TicksPerSecond)
    /\ UNCHANGED <<redis_client, db_initialized, streamer_frames, products, scan, chat,
                   minio, comments_stream, queues, ttl, chat_messages, sub, pq, wk>>

(* ------------------------------ POST /chat ----------------------------- *)
TextOptions == "No pude identificar el producto exacto. Te gustaria ver mas opciones?"

\* the fallback list of one sample product
SampleProducts == <<"prod_001">>

\* ChatResponse: the fields of the response model, and no others
ChatResponse(user_id, streamer_id, intent, cantidad, timestamp, matched, recommended, text, ready) ==
    [user_id |-> user_id, streamer_id |-> streamer_id, intent |-> intent,
     cantidad |-> cantidad, timestamp |-> timestamp, matched_product |-> matched,
     recommended_products |-> recommended, response_text |-> text,
     payment_ready |-> ready]

\* the body of an error answer
ErrorBody(detail) == [detail |-> detail]

ChatIdle == [pc |-> "idle", user_id |-> NoId, streamer_id |-> NoId, reply |-> NoReply,
             frame |-> NoFrame, vision |-> NoVision,
             intent |-> "no", cantidad |-> 0, timestamp |-> NoTs,
             matched_product |-> NoProduct, recommended_products |-> <<>>,
             response_text |-> TextHelp, payment_ready |-> FALSE,
             status |-> 0, body |-> ErrorBody("")]

\* intent = "no"  # Default: no buying intent
chat_default_intent == "no"

\* process_chat: intent and cantidad after the webhook call.  The inner except
\* (KeyError, TypeError, AttributeError) and the outer except Exception both
\* put the defaults back, so any exception gives the defaults.
chat_parse_raises(reply) ==
    \/ reply.kind = "raise"
    \/ reply.status = 200 /\ reply.shape = "notjson"
    \/ reply.status = 200 /\ reply.shape \in {"list", "dict"}
          /\ (reply.intent = "<null>" \/ IntRaises(reply.cantidad))

chat_intent(reply) ==
    IF chat_parse_raises(reply) \/ reply.status # 200 THEN chat_default_intent
    ELSE IF reply.shape \notin {"list", "dict"} THEN chat_default_intent
    ELSE IF reply.intent = "<absent>" THEN "no"
    ELSE Lower(reply.intent)

chat_cantidad(reply) ==
    IF chat_parse_raises(reply) \/ reply.status # 200 THEN 0
    ELSE IF reply.shape \notin {"list", "dict"} THEN 0
    ELSE IntOf(reply.cantidad)

\* .eq("streamer", ...).order("frame_timestamp", desc=True).limit(1)
chat_latest_frame(table, streamer) ==
    LET rows == frames_eq_streamer(table, streamer)
    IN IF rows = {} THEN NoFrame
       ELSE CHOOSE f \in rows : \A g \in rows : g.frame_timestamp <= f.frame_timestamp

\* POST /chat: validation of ChatMessage (user_id, streamer_id and message
\* are required), then the webhook call and its parse
process_chat_webhook(user_id, streamer_id, reply) ==
    /\ chat.pc = "idle"
    /\ chat' =
         IF streamer_id = NoId
           THEN [chat EXCEPT !.pc = "done", !.user_id = user_id, !.status = 422,
                             !.body = ErrorBody("streamer_id: field required")]
         ELSE [chat EXCEPT !.pc = IF chat_intent(reply) = "yes" THEN "flow" ELSE "db",
                           !.user_id = user_id, !.streamer_id = streamer_id,
                           !.reply = reply, !.timestamp = now,
                           !.intent = chat_intent(reply),
                           !.cantidad = chat_cantidad(reply)]
    /\ UNCHANGED <<redis_client, db_initialized, now, streamer_frames, products, scan, col, minio,
                   comments_stream, queues, ttl, chat_messages, sub, pq, wk>>

\* if intent == "yes": latest frame, visual matcher, catalog lookup; without
\* a match the sample list; on an exception the apology
process_chat_flow(vreply, raises) ==
    /\ chat.pc = "flow"
    /\ LET frame == IF db_initialized THEN chat_latest_frame(streamer_frames, chat.streamer_id)
                    ELSE NoFrame
           rows == IF frame # NoFrame /\ vision_matched(vreply) /\ db_initialized
                     THEN products_eq_id(products, vreply.productId) ELSE {}
           seen == [chat EXCEPT !.frame = IF raises THEN NoFrame ELSE frame,
                                !.vision = IF raises \/ frame = NoFrame THEN NoVision
                                           ELSE vreply]
       IN chat' =
            IF raises \/ (frame # NoFrame /\ vreply.kind = "raise")
              THEN [seen EXCEPT !.pc = "db", !.response_text = TextProblem]
            ELSE IF rows # {}
              THEN [seen EXCEPT !.pc = "db",
                                !.matched_product =
                                    matched_product_of(CHOOSE p \in rows : TRUE, chat.cantidad),
                                !.payment_ready = TRUE,
                                !.response_text = TextFound]
            ELSE [seen EXCEPT !.pc = "db", !.recommended_products = SampleProducts,
                              !.response_text = TextOptions]
    /\ UNCHANGED <<redis_client, db_initialized, now, streamer_frames, products, scan, col, minio,
                   comments_stream, queues, ttl, chat_messages, sub, pq, wk>>

\* the best-effort insert into chat_messages and the return of ChatResponse
process_chat_return(raises) ==
    /\ chat.pc = "db"
    /\ chat_messages' =
         IF db_initialized /\ ~raises
           THEN Append(chat_messages,
                       [user_id |-> chat.user_id, streamer |-> chat.streamer_id,
                        intent |-> chat.intent, cantidad |-> chat.cantidad,
                        timestamp |-> chat.timestamp])
           ELSE chat_messages
    /\ chat' = [chat EXCEPT !.pc = "done", !.status = 200,
                            !.body = ChatResponse(chat.user_id, chat.streamer_id, chat.intent,
                                                  chat.cantidad, chat.timestamp,
                                                  chat.matched_product,
                                                  chat.recommended_products,
                                                  chat.response_text, chat.payment_ready)]
    /\ UNCHANGED <<redis_client, db_initialized, now, streamer_frames, products, scan, col, minio,
                   comments_stream, queues, ttl, sub, pq, wk>>

(* --------------------------- initial states ---------------------------- *)
InitStore ==
    /\ scan = ScanIdle
    /\ col = [p \in ColIds |-> ColIdle]
    /\ minio = {}
    /\ chat = ChatIdle
    /\ comments_stream = <<>>
    /\ queues = [k \in Keys |-> <<>>]
    /\ ttl = [k \in Keys |-> 0]
    /\ chat_messages = <<>>
    /\ sub = [i \in SubIds |-> SubIdle]
    /\ pq = [j \in PqIds |-> PqIdle]
    /\ wk = [w \in WkIds |-> WkInit]

(* ----------------------------- inputs ---------------------------------- *)
\* the catalog of the spec's scenario: item X at unit price 50
Catalog == {Product("X", 50)}

WebhookYes(shape, q) == WebhookReply("http", 200, shape, "yes", Cant("int", q))

\* replies of the intent webhook
WebhookReplies ==
    { WebhookRaises,
      WebhookReply("http", 500, "list", "yes", Cant("int", 2)),
      WebhookReply("http", 200, "notjson", "<absent>", NoCant),
      WebhookReply("http", 200, "emptylist", "<absent>", NoCant),
      WebhookReply("http", 200, "other", "<absent>", NoCant),
      WebhookYes("list", 2), WebhookYes("dict", 1),
      WebhookReply("http", 200, "list", "YES", Cant("numstr", 2)),
      WebhookReply("http", 200, "list", "yes", NoCant),
      WebhookReply("http", 200, "list", "yes", Cant("badstr", 0)),
      WebhookReply("http", 200, "dict", "yes", Cant("null", 0)),
      WebhookReply("http", 200, "list", "no", Cant("int", 0)),
      WebhookReply("http", 200, "list", "<absent>", Cant("int", 2)),
      WebhookReply("http", 200, "dict", "<null>", Cant("int", 2)) }

\* replies of the visual matcher
VisionReplies ==
    { VisionReply("raise", 0, NoId), VisionReply("http", 500, "X"),
      VisionReply("http", 200, NoId), VisionReply("http", 200, "X"),
      VisionReply("http", 200, "Y") }

(* ------------------------- the requests of a run ----------------------- *)
\* request ids are handed out in order of arrival
NextSub(i) == IF i = 1 THEN TRUE ELSE sub[i - 1].pc # "idle"
NextPq(j) == IF j = 1 THEN TRUE ELSE pq[j - 1].pc # "idle"

Submit(S, C, T, R) ==
    \E i \in SubIds :
        \/ \E s \in S, c \in C, t \in T, r \in R :
               NextSub(i) /\ queue_comment_internal_xadd(i, s, c, t, r)
        \/ \E r \in R : queue_comment_internal_rpush(i, r)
        \/ \E r \in R : queue_comment_internal_expire(i, r)
        \/ \E r \in R : queue_comment_internal_db(i, r)

\* a drain whose classifier finds no buying intent, or fails
DrainNoIntent(J, S, C, R) ==
    \E j \in J :
        \/ \E s \in S, c \in C, r \in R : NextPq(j) /\ process_user_queue_lrange(j, s, c, r)
        \/ \E reply \in {WebhookRaises, WebhookReply("http", 200, "list", "no", Cant("int", 0))} :
               process_user_queue_webhook(j, reply)
        \/ \E r \in R : process_user_queue_delete(j, r)

\* the workers Wk popping comments that carry no buying intent
WorkerPopOf(Wk, R) ==
    \E w \in Wk :
        \/ \E r \in R : worker_loop_discover(w, r)
        \/ \E k \in Keys : worker_loop_blpop(w, k)
        \/ \E r \in R : worker_loop_timeout(w, r)
        \/ process_comment_nlp(w, NlpReply("http", 200, "dict", "none", 0))

\* one worker process
WorkerPop(R) == WorkerPopOf({1}, R)

(* ------------------- Spec: intake beside the worker ------------------- *)
Init ==
    /\ redis_client \in BOOLEAN
    /\ db_initialized \in BOOLEAN
    /\ now = 1
    /\ streamer_frames = {}
    /\ products = {}
    /\ InitStore

Next ==
    \/ Submit(Streamers, Clients, {NoTs}, BOOLEAN)
    \/ WorkerPop(BOOLEAN)

Spec == Init /\ [][Next]_vars

(* ---------------- SpecDrain: concurrent drains of one key ------------- *)
InitDrain ==
    /\ redis_client = TRUE
    /\ db_initialized \in BOOLEAN
    /\ now = 1
    /\ streamer_frames = {}
    /\ products = {}
    /\ InitStore

NextDrain ==
    \/ Submit({"s1"}, {"r1"}, {NoTs}, {FALSE})
    \/ DrainNoIntent(PqIds, {"s1"}, {"r1"}, {FALSE})
    \/ WorkerPop({FALSE})

SpecDrain == InitDrain /\ [][NextDrain]_vars

(* --------------- SpecCorrelator: one drain, every outcome -------------- *)
\* the whole of process_user_queue, for the requests J, with the webhook
\* replies W and the matcher replies V
Correlate(J, S, C, R, W, V) ==
    \E j \in J :
        \/ \E s \in S, c \in C, r \in R : process_user_queue_lrange(j, s, c, r)
        \/ \E reply \in W : process_user_queue_webhook(j, reply)
        \/ \E r \in R : process_user_queue_frames(j, r)
        \/ \E reply \in V : process_user_queue_vision(j, reply)
        \/ \E r \in R : process_user_queue_product(j, r)
        \/ \E r \in R : process_user_queue_delete(j, r)

InitCorrelator ==
    /\ redis_client = TRUE
    /\ db_initialized \in BOOLEAN
    /\ now = 2
    /\ streamer_frames \in {{}, {Frame("s1", 1)}, {Frame("s1", MaxTs)}}
    /\ products \in {{}, Catalog}
    /\ InitStore

NextCorrelator ==
    \/ Submit({"s1"}, {"r1"}, {NoTs}, {FALSE})
    \/ Correlate({1}, {"s1"}, {"r1"}, BOOLEAN, WebhookReplies, VisionReplies)

SpecCorrelator == InitCorrelator /\ [][NextCorrelator]_vars

(* ------------- SpecSelect: the frame nearest to the intent ------------- *)
\* frame tables: any frames of s1 within the horizon, beside frames of
\* another source
FrameTables ==
    {{Frame("s1", t) : t \in own} \cup {Frame("s2", t) : t \in Ts} : own \in SUBSET Ts}

InitSelect ==
    /\ redis_client = TRUE
    /\ db_initialized \in BOOLEAN
    /\ now = 2
    /\ streamer_frames \in FrameTables
    /\ products = Catalog
    /\ InitStore

NextSelect ==
    \/ Submit({"s1"}, {"r1"}, {NoTs} \cup Ts, {FALSE})
    \/ Correlate({1}, {"s1"}, {"r1"}, {FALSE},
                 {WebhookYes("list", 2), WebhookReply("http", 200, "list", "no", Cant("int", 0))},
                 {VisionReply("http", 200, "X"), VisionReply("raise", 0, NoId)})

SpecSelect == InitSelect /\ [][NextSelect]_vars

(* ---------------- SpecBatch: what a drain reads as a batch ------------- *)
InitBatch ==
    /\ redis_client = TRUE
    /\ db_initialized = FALSE
    /\ now = 2
    /\ streamer_frames = {}
    /\ products = {}
    /\ InitStore

NextBatch ==
    \/ Submit({"s1"}, {"r1"}, {NoTs} \cup Ts, {FALSE})
    \/ \E e \in ForeignEntries : foreign_rpush(list_key("s1", "r1"), e)
    \/ DrainNoIntent({1}, {"s1"}, {"r1"}, {FALSE})

SpecBatch == InitBatch /\ [][NextBatch]_vars

(* ------------------- SpecWorker: the worker's pipeline ----------------- *)
NlpReplies ==
    { NlpReply("raise", 0, "none", "none", 0),
      NlpReply("http", 500, "notjson", "none", 0),
      NlpReply("http", 500, "dict", "buy", 95),
      NlpReply("http", 200, "other", "none", 0),
      NlpReply("http", 200, "dict", "none", 0),
      NlpReply("http", 200, "dict", "buy", BuyThreshold),
      NlpReply("http", 200, "dict", "buy", 95) }

MatchReplies ==
    { MatchReply("raise", NoId, 0), MatchReply("json", NoId, 0),
      MatchReply("json", "X", MatchThreshold), MatchReply("json", "X", 85) }

Worker(R) ==
    \E w \in {1} :
        \/ \E r \in R : worker_loop_discover(w, r)
        \/ \E k \in Keys : worker_loop_blpop(w, k)
        \/ \E r \in R : worker_loop_timeout(w, r)
        \/ \E reply \in NlpReplies : process_comment_nlp(w, reply)
        \/ \E reply \in MatchReplies : process_comment_vision(w, reply)
        \/ \E r \in R : process_comment_order(w, r)

InitWorker ==
    /\ redis_client = TRUE
    /\ db_initialized = TRUE
    /\ now = 2
    /\ streamer_frames = {}
    /\ products = Catalog
    /\ InitStore

NextWorker ==
    \/ Submit({"s1"}, Clients, {NoTs}, {FALSE})
    \/ Worker(BOOLEAN)

SpecWorker == InitWorker /\ [][NextWorker]_vars

(* ------------- SpecWorkers: several workers on one queue set ----------- *)
InitWorkers ==
    /\ redis_client = TRUE
    /\ db_initialized = TRUE
    /\ now = 2
    /\ streamer_frames = {}
    /\ products = Catalog
    /\ InitStore

NextWorkers ==
    \/ Submit({"s1"}, Clients, {NoTs}, {FALSE})
    \/ WorkerPopOf(WkIds, {FALSE})

SpecWorkers == InitWorkers /\ [][NextWorkers]_vars

(* ------------------ SpecLoop: the worker's loop, fair ------------------ *)
\* the worker process keeps running: every call it awaits returns or raises
\* within its timeout (BLPOP 5 s, the HTTP calls 10 s and 15 s)
NextLoop ==
    \/ Submit({"s1"}, {"r1"}, {NoTs}, {FALSE})
    \/ \E e \in {f \in ForeignEntries : ~f.json} : foreign_rpush(list_key("s1", "r1"), e)
    \/ Worker(BOOLEAN)

SpecLoop == InitWorker /\ [][NextLoop]_vars /\ WF_vars(Worker(BOOLEAN))

(* ----------------- SpecTtl: the retention of a queue key --------------- *)
NextTtl ==
    \/ Submit({"s1"}, {"r1"}, {NoTs}, BOOLEAN)
    \/ \E k \in Keys : ttl_elapse(k)
    \/ WorkerPop(BOOLEAN)

SpecTtl == InitWorker /\ [][NextTtl]_vars

(* ----------------- SpecScan: key discovery, page by page --------------- *)
\* the client library hands the cursor over as a string or as an integer
CursorForms == {"str", "int"}

NextScan ==
    \/ Submit(Streamers, {"r:r1"}, {NoTs}, {FALSE})
    \/ DrainNoIntent({1}, {"s1"}, {"r:r1"}, {FALSE})
    \/ \E form \in CursorForms : scan_begin(form)
    \/ \E r \in BOOLEAN : scan_page(r)

SpecScan == InitWorker /\ [][NextScan]_vars

(* ---------------------- SpecCollector: the frame task ------------------ *)
InitCollector ==
    /\ redis_client = TRUE
    /\ db_initialized = TRUE
    /\ now = 1
    /\ streamer_frames = {}
    /\ products = Catalog
    /\ InitStore

\* the collector processes P with configurations C, source lists L and
\* outcomes CO of the capture and SO of the record write
Collector(P, C, L, CO, SO) ==
    \E p \in P :
        \/ \E c \in C, list \in L : collector_fetch(p, c, list)
        \/ \E o \in CO : collector_capture(p, o)
        \/ \E o \in SO : collector_save(p, o)
        \/ collector_sleep(p)

NextCollector == Collector({1}, BOOLEAN, SourceLists, CaptureOutcomes, SaveOutcomes)

SpecCollector == InitCollector /\ [][NextCollector]_vars

(* --------------------------- SpecChat: POST /chat ---------------------- *)
InitChat ==
    /\ redis_client = TRUE
    /\ db_initialized \in BOOLEAN
    /\ now = 2
    /\ streamer_frames \in {{}, {Frame("s1", 1), Frame("s1", 2)}}
    /\ products = Catalog
    /\ InitStore

\* a POST /chat of a user in U for a source in S, with webhook replies W,
\* matcher replies V and failures R
Chat(U, S, W, V, R) ==
    \/ \E u \in U, s \in S, reply \in W : process_chat_webhook(u, s, reply)
    \/ \E v \in V, r \in R : process_chat_flow(v, r)
    \/ \E r \in R : process_chat_return(r)

NextChat == Chat({"r1"}, {"s1", NoId}, WebhookReplies, VisionReplies, BOOLEAN)

SpecChat == InitChat /\ [][NextChat]_vars

(* ------------- SpecTraffic: one key kept busy beside another ----------- *)
\* comments are submitted for key chat:queue:s1:r:r1 while a producer keeps
\* writing entries to key chat:queue:s1:r1; the worker's loop is scheduled
\* fairly and every call it awaits returns
NextTraffic ==
    \/ Submit({"s1"}, {"r:r1"}, {NoTs}, {FALSE})
    \/ \E e \in {f \in ForeignEntries : ~f.json} : foreign_rpush(list_key("s1", "r1"), e)
    \/ DrainNoIntent({1}, {"s1"}, {"r1"}, {FALSE})
    \/ WorkerPop({FALSE})

SpecTraffic == InitWorker /\ [][NextTraffic]_vars /\ WF_vars(WorkerPop({FALSE}))

(* --------- SpecWorkerFrames: the worker beside recorded frames --------- *)
\* the frame table as the collector left it: empty, or one frame of s1
InitWorkerFrames ==
    /\ redis_client = TRUE
    /\ db_initialized = TRUE
    /\ now = 2
    /\ streamer_frames \in {{}, {Frame("s1", 1)}}
    /\ products = Catalog
    /\ InitStore

SpecWorkerFrames == InitWorkerFrames /\ [][NextWorker]_vars

(* ------------- SpecCollectors: several collector processes ------------- *)
\* every worker process runs its own collector task; the clock starts at a
\* whole second
InitCollectors ==
    /\ redis_client = TRUE
    /\ db_initialized = TRUE
    /\ now = TicksPerSecond
    /\ streamer_frames = {}
    /\ products = Catalog
    /\ InitStore

NextCollectors ==
    Collector(ColIds, {TRUE}, {<<"s1">>, <<"s1", "s2">>}, CaptureOutcomes, SaveOutcomes)

SpecCollectors == InitCollectors /\ [][NextCollectors]_vars

(* ------------ SpecPayment: process_queue beside POST /chat ------------- *)
InitPayment ==
    /\ redis_client = TRUE
    /\ db_initialized \in BOOLEAN
    /\ now = 2
    /\ streamer_frames \in {{}, {Frame("s1", 1)}}
    /\ products = Catalog
    /\ InitStore

\* classifier replies: buying intent with a quantity, none, and a failure
PaymentReplies ==
    {WebhookYes("list", 2), WebhookReply("http", 200, "list", "no", Cant("int", 0)),
     WebhookRaises}

NextPayment ==
    \/ Submit({"s1"}, {"r1"}, {NoTs}, {FALSE})
    \/ Correlate({1}, {"s1"}, {"r1"}, BOOLEAN, PaymentReplies, VisionReplies)
    \/ Chat({"r1"}, {"s1"}, PaymentReplies, VisionReplies, BOOLEAN)

SpecPayment == InitPayment /\ [][NextPayment]_vars

(* ============================== claims ================================= *)
\* the comment a POST /comments request carries, and its list entry
CommentOf(i) == Comment(sub[i].streamer, sub[i].client, sub[i].timestamp, sub[i].message)
KeyOf(i) == list_key(sub[i].streamer, sub[i].client)
Returned(i) == sub[i].pc = "done" /\ sub[i].ok

\* number of positions of a sequence that hold x
Count(seq, x) == Cardinality({n \in 1..Len(seq) : seq[n] = x})

\* the comments the worker has popped so far
TimesPopped(c) == Cardinality({p \in WkIds \X (1..NSub) :
                                 p[2] <= Len(wk[p[1]].handled) /\ wk[p[1]].handled[p[2]] = c})

(* ---- C1 ---- *)
\* C1, state part: after a successful return of a submit its comment is in the
\* global log exactly once, and it was pushed exactly once: it is once in the
\* list of its own pair or was popped from it once, and in no other list.
C1_OnceInLogAndQueue ==
    \A i \in SubIds : Returned(i) =>
        /\ Count(comments_stream, CommentOf(i)) = 1
        /\ Count(queues[KeyOf(i)], json_dumps(CommentOf(i))) + TimesPopped(CommentOf(i)) = 1
        /\ \A k \in Keys \ {KeyOf(i)} : Count(queues[k], json_dumps(CommentOf(i))) = 0

\* C1, step part: the push of a submit appends its entry at the tail of the
\* list of its pair, changes no other list, and finds the comment in the log
\* already (log first, queue second).
C1_PushStep ==
    \A i \in SubIds : (sub[i].pc = "rpush" /\ sub'[i].pc = "expire") =>
        /\ queues'[KeyOf(i)] = Append(queues[KeyOf(i)], json_dumps(CommentOf(i)))
        /\ \A k \in Keys \ {KeyOf(i)} : queues'[k] = queues[k]
        /\ Count(comments_stream, CommentOf(i)) = 1
        /\ comments_stream' = comments_stream

\* C1: a successful submit appended exactly one entry to comments_stream and
\* then exactly one entry at the tail of chat:queue:{streamer}:{client}, and
\* changed no other queue.
C1_SubmitLogsThenQueuesOnce == [](C1_OnceInLogAndQueue) /\ [][C1_PushStep]_vars

\* C1 witness: two submits of one pair have returned; the later one's entry is
\* the tail of the pair's list, behind the earlier one's.
C1_Witness ==
    \E i, h \in SubIds :
        /\ i # h /\ Returned(i) /\ Returned(h) /\ KeyOf(i) = KeyOf(h)
        /\ queues[KeyOf(i)] = <<json_dumps(CommentOf(h)), json_dumps(CommentOf(i))>>
        /\ comments_stream = <<CommentOf(h), CommentOf(i)>>

(* ---- C2 ---- *)
\* the drains that have answered with an outcome, and their batches
Drained(j) == pq[j].pc = "done" /\ pq[j].status = 200
InBatch(j, c) == \E n \in 1..Len(pq[j].messages_raw) : pq[j].messages_raw[n] = json_dumps(c)

TimesConsumed(c) ==
    Cardinality({j \in PqIds : Drained(j) /\ InBatch(j, c)}) + TimesPopped(c)

\* C2: every queued comment is consumed by at most one drain: it is in the
\* batch of at most one process_queue call that answered, or was popped by the
\* worker, never both and never twice.
C2_ConsumedAtMostOnce ==
    \A n \in 1..Len(comments_stream) : TimesConsumed(comments_stream[n]) <= 1

(* ---- C4 ---- *)
PairOf(i) == <<sub[i].streamer, sub[i].client>>

\* C4: when all submits of a run have returned, for pairwise different pairs
\* and with nothing consumed, every pair has a queue key of its own that holds
\* exactly the one comment submitted for it.
C4_DistinctPairsDistinctKeys ==
    ( /\ \A i \in SubIds : Returned(i)
      /\ \A i, h \in SubIds : i # h => PairOf(i) # PairOf(h)
      /\ \A w \in WkIds : wk[w].handled = <<>> )
    => /\ \A i, h \in SubIds : i # h => KeyOf(i) # KeyOf(h)
       /\ \A i \in SubIds : queues[KeyOf(i)] = <<json_dumps(CommentOf(i))>>

(* ---- C3 ---- *)
PqKey(j) == list_key(pq[j].streamer_id, pq[j].user_id)

\* C3, the step: process_queue answers with an outcome for a batch it read
\* only in a step that leaves the key's list empty.
C3_ReturnStep ==
    \A j \in PqIds :
        (pq[j].pc # "done" /\ pq'[j].pc = "done" /\ pq'[j].status = 200
           /\ pq'[j].messages_raw # <<>>)
        => Len(queues'[PqKey(j)]) = 0

\* C3: when process_queue returns an outcome for a non-empty queue key, the
\* key's list has length 0: the whole list is deleted, never a part of it.
C3_QueueEmptyAfterOutcome == [][C3_ReturnStep]_vars

\* C3 witness: a drain has answered for a batch of two comments and the list
\* is empty.
C3_Witness ==
    \E j \in PqIds :
        /\ Drained(j) /\ Len(pq[j].messages_raw) = 2
        /\ pq[j].messages_processed = 2
        /\ queues[PqKey(j)] = <<>>

(* ---- C5 ---- *)
Abs(x) == IF x < 0 THEN -x ELSE x

\* the frame lookup of request j has run (buying intent, metadata store there,
\* no query raised), and what it had to choose from
LookedUp(j) ==
    /\ pq[j].pc \in {"vision", "product", "delete", "done"}
    /\ pq[j].intent = "yes"
    /\ db_initialized
    /\ pq[j].failed # "frames"
RowsOf(j) == {f \in streamer_frames : f.streamer = pq[j].streamer_id}
BeforeOf(j) == {f \in RowsOf(j) : f.frame_timestamp <= pq[j].first_timestamp}
AfterOf(j) == {f \in RowsOf(j) : f.frame_timestamp > pq[j].first_timestamp}

\* C5: with buying intent and first-intent timestamp T, the frame selected is
\* the source's record with the greatest capture timestamp <= T when one
\* exists, otherwise the source's record with the smallest capture timestamp
\* after T, and none when the source has no record; it is never a record of
\* another source.
C5_NearestBeforeElseFirstAfter ==
    \A j \in PqIds : LookedUp(j) =>
        LET sel == pq[j].frame
        IN /\ BeforeOf(j) # {} =>
                /\ sel \in BeforeOf(j)
                /\ \A g \in BeforeOf(j) : g.frame_timestamp <= sel.frame_timestamp
           /\ (BeforeOf(j) = {} /\ AfterOf(j) # {}) =>
                /\ sel \in AfterOf(j)
                /\ \A g \in AfterOf(j) : sel.frame_timestamp <= g.frame_timestamp
           /\ RowsOf(j) = {} => sel = NoFrame
           /\ sel # NoFrame => sel.streamer = pq[j].streamer_id

\* C5 witness (the spec's example): frames before and after the intent, and a
\* frame of another source at the intent's very instant; the one before is taken.
C5_Witness ==
    \E j \in PqIds :
        /\ LookedUp(j) /\ pq[j].first_timestamp = 2
        /\ {f.frame_timestamp : f \in RowsOf(j)} = {1, 3}
        /\ Frame("s2", 2) \in streamer_frames
        /\ pq[j].frame = Frame("s1", 1)

(* ---- C6 ---- *)
Dist(f, j) == Abs(f.frame_timestamp - pq[j].first_timestamp)

\* C6 as claimed: no record of the source is strictly nearer in time to
\* first_intent_ts than the frame selected.
C6_NearestInAbsoluteTime ==
    \A j \in PqIds : (LookedUp(j) /\ pq[j].frame # NoFrame) =>
        \A f \in RowsOf(j) : Dist(f, j) >= Dist(pq[j].frame, j)

\* C6 amended: the frame selected is the nearest among the source's records
\* at or before first_intent_ts; only a selected frame that lies after
\* first_intent_ts is the nearest of all the source's records, and then the
\* source has no record at or before it.
C6_NearestOnItsSide ==
    \A j \in PqIds : (LookedUp(j) /\ pq[j].frame # NoFrame) =>
        LET sel == pq[j].frame
        IN /\ \A f \in RowsOf(j) :
                (f.frame_timestamp <= pq[j].first_timestamp
                   \/ sel.frame_timestamp > pq[j].first_timestamp)
                => Dist(f, j) >= Dist(sel, j)
           /\ sel.frame_timestamp > pq[j].first_timestamp => BeforeOf(j) = {}

\* C6 witness: only later frames exist and the earliest of them is selected.
C6_Witness ==
    \E j \in PqIds :
        /\ LookedUp(j) /\ pq[j].first_timestamp = 2
        /\ {f.frame_timestamp : f \in RowsOf(j)} = {3, 4}
        /\ pq[j].frame = Frame("s1", 3)

(* ---- C7 ---- *)
\* positions of a batch whose entry parses and carries a timestamp
Stamped(raw) == {n \in 1..Len(raw) : raw[n].json /\ raw[n].obj.timestamp # NoTs}
HasRead(j) == pq[j].pc # "idle" /\ pq[j].messages_raw # <<>>
TsAt(raw, n) == raw[n].obj.timestamp

\* C7 as claimed: first_intent_ts is the minimum timestamp of the batch.
C7_FirstIsMinimum ==
    \A j \in PqIds : (HasRead(j) /\ Stamped(pq[j].messages_raw) # {}) =>
        LET raw == pq[j].messages_raw
        IN \A n \in Stamped(raw) : pq[j].first_timestamp <= TsAt(raw, n)

\* C7 amended: first_intent_ts is the timestamp of the first entry, in queue
\* order, that carries a timestamp; it is the minimum of the batch whenever no
\* later entry carries an earlier timestamp.
C7_FirstInQueueOrder ==
    \A j \in PqIds : (HasRead(j) /\ Stamped(pq[j].messages_raw) # {}) =>
        LET raw == pq[j].messages_raw
            first == CHOOSE n \in Stamped(raw) : \A m \in Stamped(raw) : n <= m
        IN /\ pq[j].first_timestamp = TsAt(raw, first)
           /\ (\A n, m \in Stamped(raw) : n <= m => TsAt(raw, n) <= TsAt(raw, m))
                => \A n \in Stamped(raw) : pq[j].first_timestamp <= TsAt(raw, n)

\* C7 witness: a batch whose first entry has no timestamp and whose second
\* carries a later timestamp than its third.
C7_Witness ==
    \E j \in PqIds :
        /\ HasRead(j) /\ Len(pq[j].messages_raw) = 3
        /\ Stamped(pq[j].messages_raw) = {2, 3}
        /\ TsAt(pq[j].messages_raw, 2) > TsAt(pq[j].messages_raw, 3)
        /\ pq[j].first_timestamp = TsAt(pq[j].messages_raw, 2)

(* ---- C8 ---- *)
\* a classifier call that failed or whose response is malformed
ClassifierFailed(reply) ==
    \/ reply.kind = "raise"
    \/ reply.kind = "http" /\ reply.status # 200
    \/ reply.kind = "http" /\ reply.shape \notin {"list", "dict"}
    \/ reply.kind = "http" /\ reply.intent \in {"<absent>", "<null>"}
    \/ reply.kind = "http" /\ reply.cantidad.t \in {"badstr", "null"}

\* C8: after a failed or malformed classifier call the outcome is the default
\* (intent no, quantity 0, not payment-ready, no product) and the caller gets a
\* normal response, unless the queue store itself fails.
C8_ClassifierFailureGivesDefault ==
    \A j \in PqIds :
        (pq[j].pc \in {"frames", "vision", "product", "delete", "done"}
           /\ ClassifierFailed(pq[j].webhook)) =>
        /\ pq[j].intent = "no"
        /\ pq[j].cantidad = 0
        /\ ~pq[j].payment_ready
        /\ pq[j].matched_product = NoProduct
        /\ pq[j].pc = "done" => (pq[j].status = 200 \/ pq[j].failed = "redis")

(* ---- C9 ---- *)
\* C9: after a classifier failure, timeout or non-success status the worker
\* neither calls the matcher nor attempts an order for that comment.
C9_WorkerClassifierFailureStops ==
    \A w \in WkIds :
        (wk[w].nlp.kind = "raise" \/ (wk[w].nlp.kind = "http" /\ wk[w].nlp.status # 200))
        => wk[w].pc \notin {"vision", "order"}

(* ---- C10 ---- *)
\* the scenario's inputs: a well-formed buying reply with quantity q >= 1, a
\* frame of the source at or before the intent, a match that the catalog holds,
\* and no lookup failing
BuyingReply(reply) ==
    /\ reply.kind = "http" /\ reply.status = 200 /\ reply.shape \in {"list", "dict"}
    /\ Lower(reply.intent) = "yes"
    /\ reply.cantidad.t \in {"int", "numstr"} /\ reply.cantidad.v >= 1

ScenarioInputs(j) ==
    /\ BuyingReply(pq[j].webhook)
    /\ db_initialized
    /\ BeforeOf(j) # {}
    /\ pq[j].vision.kind = "http" /\ pq[j].vision.status = 200
    /\ \E p \in products : p.id = pq[j].vision.productId
    /\ pq[j].failed = "none"

\* C10, the step: with the scenario's inputs process_queue answers
\* payment_ready with the matched item, total = unit price * quantity, and
\* leaves the recipient's queue empty.
C10_ReturnStep ==
    \A j \in PqIds :
        (pq[j].pc = "delete" /\ pq'[j].pc = "done" /\ pq'[j].status = 200 /\ ScenarioInputs(j))
        => /\ pq'[j].payment_ready
           /\ pq'[j].messages_processed = Len(pq[j].messages_raw)
           /\ \E p \in products :
                /\ p.id = pq[j].vision.productId
                /\ pq'[j].matched_product.id = p.id
                /\ pq'[j].matched_product.cantidad = pq[j].webhook.cantidad.v
                /\ pq'[j].matched_product.total = p.price * pq[j].webhook.cantidad.v
           /\ queues'[PqKey(j)] = <<>>

\* C10: buying intent with quantity q, a frame at or before the comment, the
\* matcher's item X in the catalog at price p: payment_ready, total = p * q,
\* queue empty afterwards.
C10_PaymentReadyTotal == [][C10_ReturnStep]_vars

\* C10 witness (the spec's scenario): one comment, quantity 2, item X at 50:
\* payment_ready with total 100 and the queue empty.
C10_Witness ==
    \E j \in PqIds :
        /\ Drained(j) /\ Len(pq[j].messages_raw) = 1
        /\ pq[j].payment_ready
        /\ pq[j].matched_product = [id |-> "X", price |-> 50, cantidad |-> 2, total |-> 100]
        /\ pq[j].frame.frame_timestamp <= pq[j].first_timestamp
        /\ queues[PqKey(j)] = <<>>

(* ---- C11 ---- *)
\* the classifier reported buying intent and gave no quantity
IntentWithoutQuantity(reply) ==
    /\ reply.kind = "http" /\ reply.status = 200 /\ reply.shape \in {"list", "dict"}
    /\ Lower(reply.intent) = "yes"
    /\ reply.cantidad.t = "absent"

\* C11: when the classifier reports buying intent without a quantity, a
\* payment-ready outcome has quantity 1 and total = unit price * 1.
C11_DefaultQuantityOne ==
    \A j \in PqIds :
        (Drained(j) /\ pq[j].payment_ready /\ IntentWithoutQuantity(pq[j].webhook)) =>
        /\ pq[j].matched_product.cantidad = 1
        /\ pq[j].matched_product.total = pq[j].matched_product.price

(* ---- C12 ---- *)
\* the buying flow of a drain failed: the frame lookup raised or gave no frame
\* (also with the metadata store offline), the matcher call raised or answered
\* with another status or without an item id, or the catalog lookup raised or
\* found no row
FlowFailed(j) ==
    /\ pq[j].intent = "yes"
    /\ \/ pq[j].failed \in {"frames", "vision", "product"}
       \/ ~db_initialized
       \/ select_frame(streamer_frames, pq[j].streamer_id, pq[j].first_timestamp) = NoFrame
       \/ pq[j].vision.kind = "http"
            /\ (pq[j].vision.status # 200 \/ pq[j].vision.productId = NoId)
       \/ pq[j].product_id # NoId /\ products_eq_id(products, pq[j].product_id) = {}

Apologies == {TextNotIdentified, TextProblem}

\* C12, state part: once a failed buying flow is about to answer, it is not
\* payment-ready, has no matched product and has an apology as reply text.
C12_FailedFlowOutcome ==
    \A j \in PqIds :
        (pq[j].pc \in {"delete", "done"} /\ FlowFailed(j)) =>
        /\ ~pq[j].payment_ready
        /\ pq[j].matched_product = NoProduct
        /\ pq[j].response_text \in Apologies
        /\ pq[j].response_text # ""

\* C12, step part: after a failed buying flow the delete of the key is still
\* issued, and when it succeeds the answer is a normal response (status 200)
\* with the list empty.
C12_ReturnStep ==
    \A j \in PqIds :
        (pq[j].pc = "delete" /\ FlowFailed(j) /\ process_user_queue_delete(j, FALSE)) =>
        /\ pq'[j].pc = "done" /\ pq'[j].status = 200
        /\ ~pq'[j].payment_ready
        /\ pq'[j].matched_product = NoProduct
        /\ pq'[j].response_text \in Apologies
        /\ queues'[PqKey(j)] = <<>>

\* C12: with buying intent, any failure of the frame lookup, of the matcher
\* call or of the catalog lookup gives a normal response with
\* payment_ready=false, no matched product and an apology text, and the queue
\* is deleted.
C12_FailureDegradesToNoMatch == [](C12_FailedFlowOutcome) /\ [][C12_ReturnStep]_vars

\* C12 witness: the matcher answered 500 (with an item id in the body), the
\* drain answered 200 with the apology and the list is empty.
C12_Witness ==
    \E j \in PqIds :
        /\ Drained(j) /\ pq[j].intent = "yes"
        /\ pq[j].vision.kind = "http" /\ pq[j].vision.status = 500
        /\ pq[j].vision.productId = "X"
        /\ ~pq[j].payment_ready /\ pq[j].response_text = TextNotIdentified
        /\ pq[j].messages_raw # <<>> /\ queues[PqKey(j)] = <<>>

(* ---- C13 ---- *)
\* C13: every process_queue invocation that has ended carries a non-empty
\* reply text for the buyer, whatever failed.
C13_AlwaysAReplyText ==
    \A j \in PqIds : pq[j].pc = "done" => pq[j].response_text # ""

(* ---- C14 ---- *)
\* worker w has popped comment c
PoppedBy(w, c) == \E n \in 1..Len(wk[w].handled) : wk[w].handled[n] = c

\* C14: with several workers on the same queues every queued comment is popped
\* and handed to process_comment at most once, by at most one worker.
C14_PoppedByOneWorker ==
    \A n \in 1..Len(comments_stream) :
        /\ TimesPopped(comments_stream[n]) <= 1
        /\ \A w, v \in WkIds :
             (PoppedBy(w, comments_stream[n]) /\ PoppedBy(v, comments_stream[n])) => w = v
        /\ TimesPopped(comments_stream[n])
             + Count(queues[list_key(comments_stream[n].streamer, comments_stream[n].client)],
                     json_dumps(comments_stream[n])) <= 1

\* C14 witness: two workers waited on the same key; each has popped one of its
\* two comments.
C14_Witness ==
    \E w, v \in WkIds :
        /\ w # v
        /\ Len(wk[w].handled) = 1 /\ Len(wk[v].handled) = 1
        /\ wk[w].key = wk[v].key
        /\ wk[w].handled[1] # wk[v].handled[1]
        /\ queues[wk[w].key] = <<>>

(* ---- C15 ---- *)
InPipeline(w) == wk[w].pc \in {"nlp", "vision", "order"}

\* C15, pushes: a step that lengthens a list appends one entry at its tail, so
\* the order of a list is the order of the pushes.
C15_PushStep ==
    \A k \in Keys : Len(queues'[k]) > Len(queues[k]) =>
        \E e \in {queues'[k][Len(queues'[k])]} : queues'[k] = Append(queues[k], e)

\* C15, pops: a step that shortens a list is a pop of its head by the worker
\* while it waits, no pipeline being in progress, and the comment popped is
\* handed to process_comment behind every comment handed over before.
C15_PopStep ==
    \A k \in Keys : Len(queues'[k]) < Len(queues[k]) =>
        /\ queues'[k] = Tail(queues[k])
        /\ wk[1].pc = "wait" /\ ~InPipeline(1)
        /\ wk'[1].comment = Head(queues[k])
        /\ Head(queues[k]).json =>
             /\ wk'[1].pc = "nlp"
             /\ wk'[1].handled = Append(wk[1].handled, Head(queues[k]).obj)

\* C15, pipeline: while a pipeline runs it is the one of the comment popped
\* last, and the list of comments handed over only grows at its end.
C15_PipelineStep ==
    /\ InPipeline(1) =>
         /\ wk[1].handled # <<>>
         /\ wk[1].comment.obj = wk[1].handled[Len(wk[1].handled)]
         /\ wk'[1].handled = wk[1].handled
    /\ \/ wk'[1].handled = wk[1].handled
       \/ /\ Len(wk'[1].handled) = Len(wk[1].handled) + 1
          /\ SubSeq(wk'[1].handled, 1, Len(wk[1].handled)) = wk[1].handled

\* C15: comments pushed to one queue key are handed to process_comment by a
\* single worker in the order of their pushes, and the pipeline of the earlier
\* one has ended before the later one is popped.
C15_FifoPerKey == [][C15_PushStep /\ C15_PopStep /\ C15_PipelineStep]_vars

\* C15 witness: two comments of one key were handed over, the first one's
\* pipeline ended with an order request and the second one's is starting.
C15_Witness ==
    /\ Len(wk[1].handled) = 2
    /\ wk[1].handled[1].streamer = wk[1].handled[2].streamer
    /\ wk[1].handled[1].client = wk[1].handled[2].client
    /\ wk[1].handled[1] # wk[1].handled[2]
    /\ Len(wk[1].orders) = 1 /\ wk[1].orders[1].message = wk[1].handled[1].message
    /\ wk[1].pc = "nlp" /\ wk[1].comment.obj = wk[1].handled[2]

(* ---- C16 ---- *)
WorkerStates == {"discover", "wait", "nlp", "vision", "order"}

\* a step of the worker in which a call or the handling of a message raises:
\* the key scan, the blocking pop, the deserialization of the entry popped, or
\* the pipeline (the classifier's body is JSON but no object)
C16_RaisingStep ==
    \/ worker_loop_discover(1, TRUE)
    \/ worker_loop_timeout(1, TRUE)
    \/ \E k \in Keys : worker_loop_blpop(1, k) /\ ~Head(queues[k]).json
    \/ \E reply \in NlpReplies :
           nlp_result_of(reply).shape # "dict" /\ process_comment_nlp(1, reply)

\* C16, the step: a raising step leaves the worker in DISCOVER (after its
\* backoff), and the message it was handling is in no queue any more.
C16_BackToDiscover ==
    C16_RaisingStep =>
        /\ wk'[1].pc = "discover"
        /\ wk[1].pc = "nlp" =>
             \A k \in Keys : Count(queues'[k], wk[1].comment) = 0

\* C16: worker_loop has no terminal state: it is always at one of its steps,
\* every exception inside a cycle brings it back to DISCOVER, and it is in
\* DISCOVER again and again whatever failed.
C16_LoopNeverEnds ==
    /\ [](wk[1].pc \in WorkerStates)
    /\ [][C16_BackToDiscover]_vars
    /\ []<>(wk[1].pc = "discover")

\* C16 witness: the pipeline of one message raised, the worker is back in its
\* loop and has since handed over a later message.
C16_Witness ==
    /\ wk[1].errors = 1
    /\ Len(wk[1].handled) = 2
    /\ wk[1].pc = "nlp"
    /\ wk[1].nlp.shape = "other"
    /\ wk[1].comment.obj = wk[1].handled[2]

(* ---- C17 ---- *)
\* what the classifier and the matcher returned for the comment in hand
ReturnedBuy(w) ==
    wk[w].nlp_result.shape = "dict" /\ wk[w].nlp_result.intent = "buy"
        /\ wk[w].nlp_result.score > 50
ReturnedMatch(w) == wk[w].match_result.productId # NoId /\ wk[w].match_result.score > 70

\* C17, state part: the worker is about to send an order request only with a
\* buy above 0.5 and a product id above 0.7, and every order request sent is
\* for a comment that was popped.
C17_OrderOnlyAboveThresholds ==
    /\ wk[1].pc = "order" => (ReturnedBuy(1) /\ ReturnedMatch(1))
    /\ wk[1].pc = "vision" => ReturnedBuy(1)
    /\ \A n \in 1..Len(wk[1].orders) :
         \E m \in 1..Len(wk[1].handled) : wk[1].handled[m].message = wk[1].orders[n].message

\* C17, step part: a pipeline goes on to the matcher exactly when the
\* classifier returned buy above 0.5, and sends the order request exactly when
\* the matcher also returned a product id above 0.7; otherwise the cycle ends
\* with no order request and, the results being read, without error.
C17_PipelineStep ==
    /\ (wk[1].pc = "nlp" /\ wk'[1].pc # "nlp") =>
         /\ wk'[1].orders = wk[1].orders
         /\ wk'[1].nlp_result.shape = "dict" =>
              /\ wk'[1].pc = "vision" <=>
                   (wk'[1].nlp_result.intent = "buy" /\ wk'[1].nlp_result.score > 50)
              /\ wk'[1].pc # "vision" =>
                   (wk'[1].pc = "discover" /\ wk'[1].errors = wk[1].errors)
    /\ (wk[1].pc = "vision" /\ wk'[1].pc # "vision") =>
         /\ wk'[1].orders = wk[1].orders
         /\ wk'[1].pc = "order" <=>
              (wk'[1].match_result.productId # NoId /\ wk'[1].match_result.score > 70)
         /\ wk'[1].pc # "order" => (wk'[1].pc = "discover" /\ wk'[1].errors = wk[1].errors)
    /\ (wk[1].pc = "order" /\ wk'[1].pc # "order") =>
         /\ Len(wk'[1].orders) = Len(wk[1].orders) + 1
         /\ wk'[1].orders[Len(wk'[1].orders)].message = wk[1].comment.obj.message
         /\ wk'[1].orders[Len(wk'[1].orders)].product_id = wk[1].match_result.productId
         /\ wk'[1].pc = "discover" /\ wk'[1].errors = wk[1].errors
    /\ wk[1].pc \notin {"nlp", "vision", "order"} => wk'[1].orders = wk[1].orders

OrdersFor(m) == {n \in 1..Len(wk[1].orders) : wk[1].orders[n].message = m}

\* C18, state part: at most one order request was sent for any comment, and a
\* comment whose order request was sent is in no queue.
C18_OneOrderPerComment ==
    \A n \in 1..Len(comments_stream) :
        /\ Cardinality(OrdersFor(comments_stream[n].message)) <= 1
        /\ Cardinality(OrdersFor(comments_stream[n].message)) <= TimesPopped(comments_stream[n])
        /\ OrdersFor(comments_stream[n].message) # {} =>
             \A k \in Keys : Count(queues[k], json_dumps(comments_stream[n])) = 0

\* C18, step part: the order request, failing or not, ends the cycle and
\* changes no queue.
C18_OrderStep ==
    (wk[1].pc = "order" /\ wk'[1].pc # "order") =>
        /\ queues' = queues
        /\ wk'[1].pc = "discover"
        /\ Len(wk'[1].orders) = Len(wk[1].orders) + 1

\* C18: per popped comment at most one order-creation request is sent; when it
\* fails the comment is not pushed back to any queue and no second attempt is
\* made.
C18_AtMostOneOrderAttempt == [](C18_OneOrderPerComment) /\ [][C18_OrderStep]_vars

\* C18 witness: the order request of the first comment failed; the worker went
\* on to the next comment, the failed one is in no queue and has its single
\* request.
C18_Witness ==
    /\ Len(wk[1].handled) = 2
    /\ Len(wk[1].orders) = 1 /\ wk[1].orders[1].failed
    /\ wk[1].orders[1].message = wk[1].handled[1].message
    /\ wk[1].pc = "vision"
    /\ \A k \in Keys : Count(queues[k], json_dumps(wk[1].handled[1])) = 0

(* ---- C19 ---- *)
\* the keys that exist: a list that became empty is no key any more
ActiveKeys == {k \in Keys : queues[k] # <<>>}

\* C19, state part: while the worker waits, every key of its key set holds a
\* comment (only its own pop empties a list here, and the pop ends the wait).
C19_WaitKeysLive ==
    wk[1].pc = "wait" => (wk[1].keys # {} /\ wk[1].keys \subseteq ActiveKeys)

\* C19, step part: every WAIT is issued by a DISCOVER of the same cycle, with
\* exactly the keys that exist at that moment: a key created since the last
\* discovery is in it, a key whose list is empty is not; the key set changes
\* at no other step.
C19_DiscoverStep ==
    /\ (wk[1].pc # "wait" /\ wk'[1].pc = "wait") =>
         /\ wk[1].pc = "discover"
         /\ wk'[1].keys = ActiveKeys
    /\ wk[1].pc = "wait" => wk'[1].pc \in {"wait", "discover", "nlp"}
    /\ wk'[1].keys # wk[1].keys => wk[1].pc = "discover"

C20_StoreFails(i) ==
    \/ ~redis_client /\ sub[i].pc = "idle" /\ sub'[i].pc # "idle"
    \/ \E s \in Streamers, c \in Clients, t \in {NoTs} \cup Ts :
           queue_comment_internal_xadd(i, s, c, t, TRUE)
    \/ queue_comment_internal_rpush(i, TRUE)
    \/ queue_comment_internal_expire(i, TRUE)

\* C20, step part: such a step ends the request with HTTP 503 (no client) or
\* 500 (a call raising), ok not reported.
C20_FailStep ==
    \A i \in SubIds : C20_StoreFails(i) =>
        /\ sub'[i].pc = "done"
        /\ sub'[i].status = IF redis_client THEN 500 ELSE 503
        /\ ~sub'[i].ok

\* C20, state part: a submit that has ended reports either ok with status 200
\* or an error status without ok; ok is reported only with a client, the
\* comment in the log and its entry pushed.
C20_OkOnlyWhenStored ==
    \A i \in SubIds : sub[i].pc = "done" =>
        /\ sub[i].ok => /\ sub[i].status = 200 /\ redis_client
                        /\ Count(comments_stream, CommentOf(i)) = 1
                        /\ Count(queues[KeyOf(i)], json_dumps(CommentOf(i)))
                             + TimesPopped(CommentOf(i)) = 1
        /\ ~sub[i].ok => sub[i].status \in {500, 503}

\* C20: when the queue/log store is unavailable during submit, submit returns
\* an explicit error (HTTP 503 or 500) and never reports ok=true.
C20_StoreFailureIsExplicit == [](C20_OkOnlyWhenStored) /\ [][C20_FailStep]_vars

\* C20 witness: one submit was refused after its log append because the queue
\* push raised (500, logged but not queued), another returned ok.
C20_Witness ==
    \E i, h \in SubIds :
        /\ sub[i].pc = "done" /\ sub[i].status = 500 /\ ~sub[i].ok
        /\ Count(comments_stream, CommentOf(i)) = 1
        /\ \A k \in Keys : Count(queues[k], json_dumps(CommentOf(i))) = 0
        /\ TimesPopped(CommentOf(i)) = 0
        /\ Returned(h)

(* ---- C21 ---- *)
\* C21, step part: the last step of a submit whose database insert raises, or
\* whose database is offline, writes no row, returns ok=True with the queue
\* key and the timestamp, and leaves the log and every queue as they are.
C21_InsertStep ==
    \A i \in SubIds :
        (sub[i].pc = "db" /\ sub'[i].pc = "done" /\ chat_messages' = chat_messages) =>
        /\ sub'[i].ok /\ sub'[i].status = 200
        /\ sub'[i].queued_to = KeyOf(i)
        /\ sub'[i].timestamp = sub[i].timestamp /\ sub'[i].timestamp # NoTs
        /\ comments_stream' = comments_stream
        /\ queues' = queues /\ ttl' = ttl

\* C21, state part: a submit that returned ok without a row in chat_messages
\* has its comment in the log and its entry pushed (queued, or popped since).
C21_KeptWithoutRow ==
    \A i \in SubIds :
        (sub[i].pc = "done" /\ sub[i].status = 200 /\ Count(chat_messages, CommentOf(i)) = 0) =>
        /\ sub[i].ok /\ sub[i].queued_to = KeyOf(i)
        /\ Count(comments_stream, CommentOf(i)) = 1
        /\ Count(queues[KeyOf(i)], json_dumps(CommentOf(i))) + TimesPopped(CommentOf(i)) = 1

\* C21: when the best-effort database insert of submit fails, or the database
\* is offline, submit still returns ok=true with the queue key and the
\* timestamp, and the log entry and the queue entry stay in place.
C21_InsertFailureSwallowed == [](C21_KeptWithoutRow) /\ [][C21_InsertStep]_vars

\* C21 witness: the database is initialised, the insert raised: ok=True, no
\* row, the comment logged and queued.
C21_Witness ==
    \E i \in SubIds :
        /\ db_initialized /\ Returned(i) /\ chat_messages = <<>>
        /\ comments_stream = <<CommentOf(i)>>
        /\ queues[KeyOf(i)] = <<json_dumps(CommentOf(i))>>
        /\ sub[i].queued_to = KeyOf(i)

(* ---- C22 ---- *)
\* C22, state part: a TTL is never above the retention window and only a key
\* that exists has one; the key of a submit that returned ok, its comment
\* still queued, has a TTL greater than 0 and at most the window.
C22_TtlWithinWindow ==
    /\ \A k \in Keys : /\ ttl[k] >= 0 /\ ttl[k] <= 604800
                       /\ ttl[k] > 0 => queues[k] # <<>>
    /\ \A i \in SubIds :
         (Returned(i) /\ Count(queues[KeyOf(i)], json_dumps(CommentOf(i))) = 1) =>
         (ttl[KeyOf(i)] > 0 /\ ttl[KeyOf(i)] <= 604800)

\* C22, step part: the TTL update of a submit sets the TTL of its key, new or
\* existing, to the full window, whatever was left of an earlier one.
C22_ExpireStep ==
    \A i \in SubIds :
        (sub[i].pc = "expire" /\ sub'[i].pc = "db" /\ queues[KeyOf(i)] # <<>>) =>
        ttl'[KeyOf(i)] = 604800

\* C22: after every successful submit the queue key has a time-to-live
\* greater than 0 and at most 604800 s: a new key gets it with the submit that
\* creates it, and each later submit refreshes it to the full window.
C22_TtlSetAndRefreshed == [](C22_TtlWithinWindow) /\ [][C22_ExpireStep]_vars

\* C22 witness: two submits for one key have returned, the first on the new
\* key and the second on the existing one; both comments are queued and the
\* key has the full window while the worker waits on it.
C22_Witness ==
    \E i, h \in SubIds :
        /\ i # h /\ Returned(i) /\ Returned(h) /\ KeyOf(i) = KeyOf(h)
        /\ queues[KeyOf(i)] = <<json_dumps(CommentOf(h)), json_dumps(CommentOf(i))>>
        /\ ttl[KeyOf(i)] = RetentionSeconds
        /\ \E w \in WkIds : wk[w].pc = "wait"


(* ------------------------------- C23 ----------------------------------- *)
\* the keys of one returned list, and the keys that held a comment when the
\* pages were read
C23_Returned(i) == {scan.results[i][n] : n \in 1..Len(scan.results[i])}
C23_HeldKeys == {k \in Keys : scan.seen[k] # <<>>}

C23_Counterexample ==
    /\ scan.raised /\ ~scan.dirty /\ scan.n >= 1
    /\ C23_HeldKeys # {}
    /\ \E i \in 1..Len(scan.results) : C23_Returned(i) = {}


(* ------------------------------- C28 ----------------------------------- *)
\* a step of the cursor loop in which the store reports the completion cursor
C28_CompletionReported ==
    /\ scan.pc = "loop" /\ scan' # scan
    /\ scan'.cursor.v = 0

C28_ExitStep ==
    C28_CompletionReported =>
        /\ scan'.pc = "returned"
        /\ scan'.results[Len(scan'.results)] = scan'.keys

\* C28: the cursor loop of get_active_queue_keys exits as soon as the store
\* reports the completion cursor (0), and the call returns the keys of every
\* page collected.
C28_ExitsOnCompletionCursor == [][C28_ExitStep]_vars


(* ------------------------------- C24 ----------------------------------- *)
\* the sources of the cycle that just ended
C24_Sources == 1..Len(col[1].streamers)

\* C24: when a collector cycle ends, every source of the fetched list has had
\* its capture attempt in that cycle, whatever failed for the sources before
\* it (capture error, non-image or non-200 response, upload failure,
\* record-write failure).
C24_EverySourceAttempted ==
    col[1].pc = "sleep" =>
        \A i \in C24_Sources : <<col[1].cycles, i>> \in col[1].attempts

\* a cycle ended in which the first of two sources failed and the second was
\* still captured
C24_Witness ==
    /\ col[1].pc = "sleep" /\ Len(col[1].streamers) = 2
    /\ <<col[1].cycles, 1>> \in col[1].failed
    /\ <<col[1].cycles, 2>> \in col[1].attempts

(* ------------------------------- C25 ----------------------------------- *)
C25_RecordsOf(c, s) ==
    {n \in 1..Len(col[1].records) : col[1].records[n].cycle = c /\ col[1].records[n].streamer = s}

\* C25: each collector cycle writes at most one new frame record per source,
\* for every list of sources the directory or the STREAMERS setting gives.
C25_OneRecordPerSourcePerCycle ==
    \A c \in 1..MaxCycles, s \in {"s1", "s2"} : Cardinality(C25_RecordsOf(c, s)) <= 1


(* ------------------------------- C26 ----------------------------------- *)
\* the webhook call timed out or raised, answered with a status other than
\* 200, or answered with an empty or malformed body
C26_WebhookFailed ==
    \/ chat.reply.kind = "raise"
    \/ chat.reply.kind = "http" /\ chat.reply.status # 200
    \/ chat.reply.kind = "http" /\ chat.reply.shape \in {"notjson", "emptylist", "other"}

\* C26: when the intent webhook call of POST /chat fails, /chat answers with
\* HTTP 200 and the default result the tests assert: intent "none" and
\* intent_score 0.0.
C26_DefaultResultOnWebhookFailure ==
    (chat.pc = "done" /\ C26_WebhookFailed) =>
        /\ chat.status = 200
        /\ chat.body.intent = "none"
        /\ "intent_score" \in DOMAIN chat.body
        /\ chat.body.intent_score = 0

\* what the code answers then: HTTP 200 with intent "no" and cantidad 0
C26_AnswersNoOnWebhookFailure ==
    (chat.pc = "done" /\ C26_WebhookFailed) =>
        /\ chat.status = 200
        /\ chat.body.intent = "no" /\ chat.body.cantidad = 0
        /\ "intent_score" \notin DOMAIN chat.body


(* ------------------------------- C27 ----------------------------------- *)
\* the delete step of drain j succeeds
C27_Deletes(j) ==
    pq[j].pc = "delete" /\ pq'[j].pc = "done" /\ pq'[j].status = 200

\* the list of drain j's key before and after the step
C27_Before(j) == queues[list_key(pq[j].streamer_id, pq[j].user_id)]
C27_After(j) == queues'[list_key(pq[j].streamer_id, pq[j].user_id)]

\* every entry in the list before the delete was read by the drain or is
\* still in the list after it, and messages_processed counts the entries gone
C27_DeleteStep ==
    \A j \in PqIds :
        C27_Deletes(j) =>
            /\ \A n \in 1..Len(C27_Before(j)) :
                   \/ \E m \in 1..Len(pq[j].messages_raw) :
                          pq[j].messages_raw[m] = C27_Before(j)[n]
                   \/ \E m \in 1..Len(C27_After(j)) : C27_After(j)[m] = C27_Before(j)[n]
            /\ pq'[j].messages_processed = Len(C27_Before(j)) - Len(C27_After(j))

\* C27: process_queue deletes only comments it has read (a comment pushed to
\* the key between its read and its delete is in the batch or still queued
\* afterwards), and messages_processed equals the number of entries removed.
C27_DeletesOnlyWhatItRead == [][C27_DeleteStep]_vars


(* ------------------------------- C29 ----------------------------------- *)
\* submit i answered with an error
C29_Failed(i) == sub[i].pc = "done" /\ sub[i].status >= 400

C29_CommentOf(i) == Comment(sub[i].streamer, sub[i].client, sub[i].timestamp, sub[i].message)

\* C29: after a submit that returned an error, its comment is in neither the
\* global log nor the per-recipient queue.
C29_FailedSubmitLeavesNoEntry ==
    \A i \in SubIds :
        C29_Failed(i) =>
            /\ \A n \in 1..Len(comments_stream) : comments_stream[n] # C29_CommentOf(i)
            /\ \A k \in Keys : \A n \in 1..Len(queues[k]) :
                   queues[k][n] # json_dumps(C29_CommentOf(i))


(* ------------------------------- C30 ----------------------------------- *)
\* the comment of submit i is in its queue; the worker has popped it
C30_Queued(i) ==
    /\ sub[i].pc # "idle"
    /\ \E n \in 1..Len(queues[list_key(sub[i].streamer, sub[i].client)]) :
           queues[list_key(sub[i].streamer, sub[i].client)][n] = json_dumps(C29_CommentOf(i))
C30_Popped(i) ==
    \E n \in 1..Len(wk[1].handled) : wk[1].handled[n] = C29_CommentOf(i)

\* C30: with the worker scheduled fairly and every call returning, each
\* comment pushed to a queue is eventually popped by the worker, also while
\* another queue key keeps receiving entries.
C30_NoKeyStarved == \A i \in SubIds : C30_Queued(i) ~> C30_Popped(i)


(* ------------------------------- C31 ----------------------------------- *)
\* C31: every matcher request of the worker carries frame references whenever
\* a frame is recorded for the comment's source.
C31_MatcherGetsRecordedFrames ==
    \A n \in 1..Len(wk[1].matcher_calls) :
        frames_eq_streamer(streamer_frames, wk[1].matcher_calls[n].comment.streamer) # {}
            => wk[1].matcher_calls[n].frame_urls # <<>>


(* ------------------------------- C32 ----------------------------------- *)
\* a payment summary with a quantity of at least 1 and a positive total of
\* price * cantidad
C32_Payable(m) == m.cantidad >= 1 /\ m.total = m.price * m.cantidad /\ m.total > 0

\* C32: every outcome of process_queue or /chat with payment_ready=true has a
\* quantity of at least 1 and a positive total equal to price * cantidad.
C32_PaymentReadyHasQuantity ==
    /\ \A j \in PqIds :
           (pq[j].pc = "done" /\ pq[j].payment_ready) => C32_Payable(pq[j].matched_product)
    /\ (chat.pc = "done" /\ chat.status = 200 /\ chat.body.payment_ready)
           => C32_Payable(chat.body.matched_product)


(* ------------------------------- C33 ----------------------------------- *)
\* the frame records written by all collector processes
C33_Records == UNION {{col[p].records[n] : n \in 1..Len(col[p].records)} : p \in ColIds}

\* C33: two different successful captures never get the same object path, and
\* the object a frame record points to still holds the bytes of that record's
\* capture, for any number of collector processes.
C33_ObjectPathUniquePerCapture ==
    /\ \A r1, r2 \in C33_Records :
           r1.capture # r2.capture => r1.minio_object # r2.minio_object
    /\ \A r \in C33_Records :
           \A o \in minio : o.name = r.minio_object => o.content = r.capture

(* ------------------------------- C34 ----------------------------------- *)
\* the capture of a record returned an image and its upload succeeded
C34_Uploaded(r) ==
    /\ r.capture[2] \in col[r.capture[1]].attempts
    /\ r.capture[2] \notin col[r.capture[1]].failed

C34_ObjectExists(name) == \E o \in minio : o.name = name

\* every record follows a successful capture and upload, and every row the
\* correlator can read names an object that exists
C34_RecordsHaveObjects ==
    /\ \A r \in C33_Records : C34_Uploaded(r) /\ C34_ObjectExists(r.minio_object)
    /\ \A f \in streamer_frames : C34_ObjectExists(f.minio_url)

\* upload first, record second: the object exists before the row is written
C34_RecordStep ==
    \A f \in streamer_frames' \ streamer_frames : C34_ObjectExists(f.minio_url)

\* C34: a Captured Frame Record is written only after a capture that returned
\* an image and whose bytes were uploaded, upload first and record second, so
\* every frame record names an object that exists in object storage.
C34_RecordOnlyAfterUpload == [](C34_RecordsHaveObjects) /\ [][C34_RecordStep]_vars

\* a process wrote a record for one capture and none for a capture that failed
C34_Witness ==
    \E p \in ColIds :
        /\ Len(col[p].records) >= 1
        /\ \E at \in col[p].failed :
               \A n \in 1..Len(col[p].records) : col[p].records[n].capture # <<p, at>>
        /\ \A f \in streamer_frames : C34_ObjectExists(f.minio_url)


(* ------------------------------- C35 ----------------------------------- *)
\* drain j has sent its text to the classifier
C35_Sent(j) == pq[j].pc \notin {"idle", "nlp"} /\ pq[j].messages_raw # <<>>

\* C35: in process_queue a queue entry that is not valid JSON is skipped: its
\* raw content is no part of the text sent to the classifier, and the call
\* does not fail because of it.
C35_BadJsonSkipped ==
    \A j \in PqIds :
        C35_Sent(j) =>
            /\ \A n \in 1..Len(pq[j].combined_messages) :
                   pq[j].combined_messages[n].from # "raw"
            /\ pq[j].pc = "done" => pq[j].status = 200


(* ------------------------------- C36 ----------------------------------- *)
\* the worker pops from key k an entry that is not valid JSON
C36_PopsBadEntry(k) ==
    /\ wk[1].pc = "wait" /\ wk'[1] # wk[1]
    /\ queues[k] # <<>> /\ ~Head(queues[k]).json
    /\ wk'[1].key = k /\ wk'[1].comment = Head(queues[k])
    /\ queues'[k] # queues[k]

C36_DropStep ==
    \A k \in Keys :
        C36_PopsBadEntry(k) =>
            /\ queues'[k] = Tail(queues[k])
            /\ wk'[1].pc = "discover"
            /\ wk'[1].handled = wk[1].handled
            /\ wk'[1].matcher_calls = wk[1].matcher_calls
            /\ wk'[1].orders = wk[1].orders
            /\ wk'[1].errors = wk[1].errors

\* no request of the pipeline is ever made for an entry that is not JSON
C36_NoPipelineForBadEntry ==
    /\ wk[1].pc \in {"nlp", "vision", "order"} => wk[1].comment.json
    /\ \A n \in 1..Len(wk[1].handled) : wk[1].handled[n] # NoEntry.obj

\* C36: a popped entry that is not valid JSON is removed from its queue and
\* dropped: process_comment is not called for it (no classifier, matcher or
\* order request) and the worker goes on to its next cycle.
C36_BadEntryDropped == [](C36_NoPipelineForBadEntry) /\ [][C36_DropStep]_vars

\* the worker has popped an entry that is not JSON and is back at DISCOVER
\* with that entry's list empty
C36_Witness ==
    /\ wk[1].pc = "discover" /\ wk[1].key # NoId
    /\ ~wk[1].comment.json
    /\ queues[wk[1].key] = <<>>


(* ------------------------------- C37 ----------------------------------- *)
\* a DISCOVER of the worker whose key scan fails
C37_ScanFails == worker_loop_discover(1, TRUE)

\* the failed scan gives the empty collection, nothing is popped, the loop's
\* error handler is not entered and the worker is at DISCOVER again
C37_FailedScanStep ==
    C37_ScanFails =>
        /\ wk'[1].keys = {}
        /\ wk'[1].pc = "discover"
        /\ wk'[1].errors = wk[1].errors
        /\ queues' = queues

\* no blocking pop is issued on an empty collection
C37_NoPopWithoutKeys == wk[1].pc = "wait" => (wk[1].keys # {} /\ ~wk[1].scan_failed)

\* C37: when the key scan fails get_active_queue_keys returns an empty
\* collection instead of raising, and worker_loop, on an empty collection,
\* issues no blocking pop and re-enters DISCOVER.
C37_FailedScanIsEmpty == [](C37_NoPopWithoutKeys) /\ [][C37_FailedScanStep]_vars

\* a scan failed while a queue held a comment: the worker is at DISCOVER with
\* no keys
C37_Witness ==
    /\ wk[1].scan_failed /\ wk[1].pc = "discover" /\ wk[1].keys = {}
    /\ wk[1].errors = 0
    /\ \E k \in Keys : queues[k] # <<>>


(* ------------------------------- C38 ----------------------------------- *)
\* comment of submit a comes before that of submit b in the log; in queue k
C38_LogBefore(a, b) ==
    \E n, m \in 1..Len(comments_stream) :
        /\ n < m
        /\ comments_stream[n] = C29_CommentOf(a) /\ comments_stream[m] = C29_CommentOf(b)
C38_QueueBefore(k, a, b) ==
    \E n, m \in 1..Len(queues[k]) :
        /\ n < m
        /\ queues[k][n] = json_dumps(C29_CommentOf(a))
        /\ queues[k][m] = json_dumps(C29_CommentOf(b))

\* C38: two comments submitted for the same (source, recipient) pair are in
\* the same relative order in comments_stream and in their queue.
C38_LogOrderIsQueueOrder ==
    \A a, b \in SubIds : \A k \in Keys :
        C38_QueueBefore(k, a, b) => C38_LogBefore(a, b)


(* ------------------------------- C39 ----------------------------------- *)
\* what a payment summary rests on: buying intent, a frame of the source, an
\* item id from the matcher, and that item in the catalog
C39_Grounded(intent, streamer, frame, vision, matched) ==
    /\ intent = "yes"
    /\ frame # NoFrame /\ frame.streamer = streamer
    /\ vision.kind = "http" /\ vision.status = 200 /\ vision.productId # NoId
    /\ \E p \in products : p.id = vision.productId /\ matched.id = p.id

C39_QueueResponse(j) ==
    /\ pq[j].payment_ready <=> pq[j].matched_product # NoProduct
    /\ pq[j].payment_ready =>
           C39_Grounded(pq[j].intent, pq[j].streamer_id, pq[j].frame, pq[j].vision,
                        pq[j].matched_product)

C39_ChatResponse ==
    /\ chat.body.payment_ready <=> chat.body.matched_product # NoProduct
    /\ chat.body.payment_ready =>
           C39_Grounded(chat.body.intent, chat.body.streamer_id, chat.frame, chat.vision,
                        chat.body.matched_product)

\* C39: in every response of process_queue and of /chat, payment_ready is true
\* exactly when matched_product is present, and then the intent is buying
\* intent, a frame of the source was found, the matcher returned an item id
\* and the catalog holds that item.
C39_PaymentReadyIffMatched ==
    /\ \A j \in PqIds : (pq[j].pc = "done" /\ pq[j].status = 200) => C39_QueueResponse(j)
    /\ (chat.pc = "done" /\ chat.status = 200) => C39_ChatResponse

\* both endpoints have answered with a payment summary
C39_Witness ==
    /\ pq[1].pc = "done" /\ pq[1].status = 200 /\ pq[1].payment_ready
    /\ chat.pc = "done" /\ chat.status = 200 /\ chat.body.payment_ready
    /\ chat.body.matched_product.id = "X"


(* ------------------------------- C40 ----------------------------------- *)
C40_InLog(c) == \E n \in 1..Len(comments_stream) : comments_stream[n] = c

\* the log only grows at its end, and a step of the worker or of
\* process_queue leaves it as it is
C40_LogStep ==
    /\ Len(comments_stream') >= Len(comments_stream)
    /\ SubSeq(comments_stream', 1, Len(comments_stream)) = comments_stream
    /\ (wk' # wk \/ pq' # pq) => comments_stream' = comments_stream

\* every comment in a queue, popped by the worker or read by process_queue
\* has its entry in the log
C40_QueuedIsLogged ==
    /\ \A k \in Keys : \A n \in 1..Len(queues[k]) : C40_InLog(queues[k][n].obj)
    /\ \A n \in 1..Len(wk[1].handled) : C40_InLog(wk[1].handled[n])
    /\ \A j \in PqIds : \A n \in 1..Len(pq[j].messages_raw) :
           C40_InLog(pq[j].messages_raw[n].obj)

\* C40: no operation of the worker or of process_queue removes or changes
\* entries of comments_stream: the log never gets shorter, and every comment
\* that was ever in a queue has an entry in the log, also after it was popped
\* or its queue was deleted.
C40_LogKeepsEveryComment == [](C40_QueuedIsLogged) /\ [][C40_LogStep]_vars

\* one comment was popped by the worker, another was read and deleted by
\* process_queue, the queues are empty and the log holds both
C40_Witness ==
    /\ Len(wk[1].handled) = 1
    /\ \E j \in PqIds : pq[j].pc = "done" /\ pq[j].messages_processed = 1
                        /\ pq[j].messages_raw[1].obj # wk[1].handled[1]
    /\ \A k \in Keys : queues[k] = <<>>
    /\ Len(comments_stream) = 2

====
